---------------------------- MODULE Spec2Model ----------------------------
(***************************************************************************)
(* Ford Mailer: campaign dispatch engine, delivery queues and workers.     *)
(*                                                                         *)
(* Strings the code inspects character by character (emails, phones) are   *)
(* sequences of one-character strings: "a@x.c" is <<"a","@","x",".","c">>. *)
(* The JavaScript values null / undefined / '' of a contact field are all  *)
(* the empty sequence (every use in the code is a truthiness test or       *)
(* String(v || '')).                                                       *)
(***************************************************************************)
EXTENDS Integers, Sequences, FiniteSets, TLC

(***************************************************************************)
(* Text helpers (JavaScript String.prototype.trim, RegExp.test)            *)
(***************************************************************************)
IsSpace(ch) == ch \in {" ", "\t"}

IsDigit(ch) == ch \in {"0", "1", "2", "3", "4", "5", "6", "7", "8", "9"}

RECURSIVE TrimLeft(_)
TrimLeft(s) ==
    IF s = <<>> THEN <<>>
    ELSE IF IsSpace(Head(s)) THEN TrimLeft(Tail(s)) ELSE s

RECURSIVE TrimRight(_)
TrimRight(s) ==
    IF s = <<>> THEN <<>>
    ELSE IF IsSpace(s[Len(s)]) THEN TrimRight(SubSeq(s, 1, Len(s) - 1)) ELSE s

\* String(v).trim()
Trim(s) == TrimRight(TrimLeft(s))

\* s.startsWith(p)
StartsWith(s, p) == Len(s) >= Len(p) /\ SubSeq(s, 1, Len(p)) = p

\* every character of s is matched by [^\s@]
NoSpaceNoAt(s) == \A i \in 1..Len(s) : ~IsSpace(s[i]) /\ s[i] # "@"

\* EMAIL_RE = /^[^\s@]+@[^\s@]+\.[^\s@]+$/ ; EMAIL_RE.test(s)
EMAIL_RE_test(s) ==
    \E a \in 1..Len(s) :
        /\ s[a] = "@"
        /\ a > 1
        /\ NoSpaceNoAt(SubSeq(s, 1, a - 1))
        /\ NoSpaceNoAt(SubSeq(s, a + 1, Len(s)))
        /\ \E d \in (a + 2)..(Len(s) - 1) : s[d] = "."

(***************************************************************************)
(* Phone normalisation (mailer/utils/phone.js).  parsePhoneNumberFromString *)
(* is libphonenumber-js; it is modelled for three calling codes.  54       *)
(* (Argentina): the national prefix rule 0?(?:(area)15)? -> 9$1 for the    *)
(* area codes 11 and 362, and the national number pattern                  *)
(* (?:11|[89]\d\d)\d{8}|[2368]\d{9}.  1 (North America): the pattern      *)
(* [2-9]\d\d[2-9]\d{6}.  34 (Spain): the pattern [5-9]\d{8}.  A number of  *)
(* any other calling code does not parse.  The separators the library      *)
(* ignores are the same for all.                                           *)
(***************************************************************************)
IsSeparator(ch) == ch \in {" ", "-", "(", ")"}

RECURSIVE StripSeparators(_)
StripSeparators(s) ==
    IF s = <<>> THEN <<>>
    ELSE IF IsSeparator(Head(s)) THEN StripSeparators(Tail(s))
         ELSE <<Head(s)>> \o StripSeparators(Tail(s))

AllDigits(s) == \A i \in 1..Len(s) : IsDigit(s[i])

\* PhoneNumber.isValid() for calling code 54: the national (significant) number
LibIsValidNational(n) ==
    /\ AllDigits(n)
    /\ \/ Len(n) = 10 /\ (SubSeq(n, 1, 2) = <<"1", "1">> \/ n[1] \in {"2", "3", "6", "8"})
       \/ Len(n) = 11 /\ n[1] \in {"8", "9"}

\* the area codes of the national prefix rule the model follows
AreaCodes == { <<"1", "1">>, <<"3", "6", "2">> }

\* the optional 0 of the national prefix rule 0?(?:(area)15)?
AfterZero(n) == IF n # <<>> /\ Head(n) = "0" THEN Tail(n) ELSE n

\* the optional (area)15 of the rule, rewritten by its transform rule 9$1
Rewrite15(m) ==
    IF \E a \in AreaCodes : StartsWith(m, a \o <<"1", "5">>)
    THEN <<"9">> \o (CHOOSE a \in AreaCodes : StartsWith(m, a \o <<"1", "5">>))
                \o SubSeq(m, Len(CHOOSE a \in AreaCodes :
                                     StartsWith(m, a \o <<"1", "5">>)) + 3, Len(m))
    ELSE m

\* the prefix is not stripped from a valid number when the rest is not valid
KeepIfBetter(n, stripped) ==
    IF LibIsValidNational(n) /\ ~LibIsValidNational(stripped) THEN n ELSE stripped

\* the national number of the digits after the country code
ExtractNational(n) == KeepIfBetter(n, Rewrite15(AfterZero(n)))

\* digits without '+', read under the default country: the calling code 54
\* is taken off when only the shorter number is valid
WithoutPlus(t, full, short) ==
    IF StartsWith(t, <<"5", "4">>) /\ ~LibIsValidNational(full) /\ LibIsValidNational(short)
    THEN short ELSE full

\* the calling codes of the library the model follows
CallingAR == <<"5", "4">>
CallingNANP == <<"1">>
CallingES == <<"3", "4">>

\* a parsed PhoneNumber: its calling code and its national number
Parsed(cc, national) == [cc |-> cc, national |-> national]

\* the parse that finds no number (undefined)
NoNumber == Parsed(<<>>, <<>>)

\* the digits after a '+': the calling code, then the national number
LibParseInternational(d) ==
    IF StartsWith(d, CallingAR)
    THEN Parsed(CallingAR, ExtractNational(SubSeq(d, 3, Len(d))))
    ELSE IF StartsWith(d, CallingNANP) THEN Parsed(CallingNANP, Tail(d))
    ELSE IF StartsWith(d, CallingES) THEN Parsed(CallingES, SubSeq(d, 3, Len(d)))
    ELSE NoNumber

\* the parse of the text once the separators are gone
LibParseDigits(t, country) ==
    IF t = <<>> THEN NoNumber
    ELSE IF Head(t) = "+"
         THEN IF AllDigits(Tail(t)) THEN LibParseInternational(Tail(t)) ELSE NoNumber
         ELSE IF country = "AR" /\ AllDigits(t)
              THEN Parsed(CallingAR,
                          WithoutPlus(t, ExtractNational(t),
                                      ExtractNational(SubSeq(t, 3, Len(t)))))
              ELSE NoNumber

\* parsePhoneNumberFromString(text, country): the number, or NoNumber when
\* nothing parses.  country = "" is the call without a default country.
LibParseNational(text, country) == LibParseDigits(StripSeparators(text), country)

\* pn = parse(trimmed) || parse(trimmed, defaultCountry)
ParseWithFallback(trimmed, first, defaultCountry) ==
    IF first # NoNumber THEN first ELSE LibParseNational(trimmed, defaultCountry)

\* pn.isValid(): the national number against the pattern of its country
LibIsValid(pn) ==
    IF pn.cc = CallingAR THEN LibIsValidNational(pn.national)
    ELSE IF pn.cc = CallingNANP
         THEN /\ Len(pn.national) = 10
              /\ AllDigits(pn.national)
              /\ pn.national[1] \notin {"0", "1"}
              /\ pn.national[4] \notin {"0", "1"}
    ELSE IF pn.cc = CallingES
         THEN /\ Len(pn.national) = 9
              /\ AllDigits(pn.national)
              /\ pn.national[1] \in {"5", "6", "7", "8", "9"}
    ELSE FALSE

\* pn.number: '+', the calling code and the national number
LibNumber(pn) == <<"+">> \o pn.cc \o pn.national

\* the least element of a non-empty set of indexes
FirstOf(hits) == CHOOSE i \in hits : \A j \in hits : i <= j

\* number.replace('+', ''): the text without its first '+'
ReplacePlus(number) ==
    IF \E i \in 1..Len(number) : number[i] = "+"
    THEN SubSeq(number, 1, FirstOf({i \in 1..Len(number) : number[i] = "+"}) - 1)
         \o SubSeq(number, FirstOf({i \in 1..Len(number) : number[i] = "+"}) + 1,
                    Len(number))
    ELSE number

\* a variant of the return of normalizePhone that keeps the '+' of pn.number
NumberOfWithPlus(pn) ==
    IF pn = NoNumber \/ ~LibIsValid(pn) THEN <<>> ELSE LibNumber(pn)

\* if (!pn || !pn.isValid()) return null; return pn.number.replace('+', '')
NumberOf(pn) ==
    IF pn = NoNumber \/ ~LibIsValid(pn) THEN <<>> ELSE ReplacePlus(LibNumber(pn))

\* normalizePhone after String(raw).trim()
normalizeTrimmed(trimmed, defaultCountry) ==
    IF trimmed = <<>> THEN <<>>
    ELSE NumberOf(ParseWithFallback(trimmed, LibParseNational(trimmed, ""),
                                    defaultCountry))

\* normalizePhone(raw, defaultCountry): E.164 digits without '+', <<>> for null
normalizePhone(raw, defaultCountry) == normalizeTrimmed(Trim(raw), defaultCountry)

\* a variant of the pattern that lets any digit come first: /^\d{2,15}$/
E164_testAnyFirst(p) ==
    /\ Len(p) >= 2
    /\ Len(p) <= 15
    /\ AllDigits(p)

\* /^[1-9]\d{1,14}$/.test(p)
E164_test(p) ==
    /\ Len(p) >= 2
    /\ Len(p) <= 15
    /\ AllDigits(p)
    /\ p[1] # "0"

\* isValidE164(phone): the pattern on String(phone || '').trim()
isValidE164(phone) == E164_test(Trim(phone))

\* afterCC.indexOf('15'): the first index (1-based) of "15" in s, 0 if none
IndexOf15(s) ==
    IF \E i \in 1..(Len(s) - 1) : s[i] = "1" /\ s[i + 1] = "5"
    THEN FirstOf({i \in 1..(Len(s) - 1) : s[i] = "1" /\ s[i + 1] = "5"})
    ELSE 0

\* if (normalized.length > 13) { ... remove the first '15' after the 54 }
Remove15(normalized, afterCC, idx) ==
    IF Len(normalized) > 13 /\ idx > 0
    THEN <<"5", "4">> \o SubSeq(afterCC, 1, idx - 1)
                      \o SubSeq(afterCC, idx + 2, Len(afterCC))
    ELSE normalized

\* if (!normalized.startsWith('549')) normalized = '549' + normalized.substring(2)
Insert9(n) ==
    IF ~StartsWith(n, <<"5", "4", "9">>)
    THEN <<"5", "4", "9">> \o SubSeq(n, 3, Len(n))
    ELSE n

\* return isValidE164(normalized) ? normalized : null
ValidOrNull(n) == IF isValidE164(n) THEN n ELSE <<>>

\* the Argentine branch: the digits after the country code, without the 15
WithoutFifteen(normalized, afterCC) == Remove15(normalized, afterCC, IndexOf15(afterCC))

\* normalizeWhatsAppPhone after its call of normalizePhone
normalizeWhatsAppDigits(normalized) ==
    IF normalized = <<>> THEN <<>>
    ELSE IF StartsWith(normalized, <<"5", "4">>)
    THEN ValidOrNull(Insert9(WithoutFifteen(normalized,
                                            SubSeq(normalized, 3, Len(normalized)))))
    ELSE ValidOrNull(normalized)

\* normalizeWhatsAppPhone(raw, defaultCountry)
normalizeWhatsAppPhone(raw, defaultCountry) ==
    normalizeWhatsAppDigits(normalizePhone(raw, defaultCountry))

(***************************************************************************)
(* Promo image URLs (mailer/utils/cloudinary.js).  A URL is a sequence of  *)
(* chunks: a protocol ("https://", "http://"), host chunks, "/" and path   *)
(* segments; "https://x.com/a" is <<"https://", "x.com", "/", "a">>.       *)
(***************************************************************************)
\* url.includes('res.cloudinary.com')
isCloudinaryUrl(url) == \E i \in 1..Len(url) : url[i] = "res.cloudinary.com"

\* a variant of enforceHttps that leaves a URL without protocol as it is
enforceHttpsKnownProtocol(url) ==
    IF StartsWith(url, <<"http://">>) THEN <<"https://">> \o Tail(url) ELSE url

\* enforceHttps(url) for a non-empty string
enforceHttps(url) ==
    IF StartsWith(url, <<"https://">>) THEN url
    ELSE IF StartsWith(url, <<"http://">>) THEN <<"https://">> \o Tail(url)
    ELSE <<"https://">> \o url

IsSegment(chunk) == chunk # "/"

\* the chunks of url without the leading chunks equal to c
RECURSIVE StripLeading(_, _)
StripLeading(url, c) ==
    IF url # <<>> /\ Head(url) = c THEN StripLeading(Tail(url), c) ELSE url

\* the chunks of url without the trailing spaces
RECURSIVE StripTrailingSpaces(_)
StripTrailingSpaces(url) ==
    IF url # <<>> /\ url[Len(url)] = " "
    THEN StripTrailingSpaces(SubSeq(url, 1, Len(url) - 1))
    ELSE url

\* the slashes that follow the protocol of an http(s) URL are skipped
SkipSlashes(url) ==
    IF url # <<>> /\ Head(url) \in {"https://", "http://"}
    THEN <<Head(url)>> \o StripLeading(Tail(url), "/")
    ELSE url

\* what the parser of new URL(url) reads: the leading and trailing spaces of
\* the string are stripped, and so are the extra slashes before the host
NewURL(url) == SkipSlashes(StripTrailingSpaces(StripLeading(url, " ")))

\* the stripped string has a protocol, one host chunk without a space, and a
\* path
HostAndPath(u) ==
    /\ Len(u) >= 2
    /\ u[1] \in {"https://", "http://"}
    /\ u[2] \notin {" ", "http://", "https://"}
    /\ Len(u) >= 3 => u[3] = "/"

\* new URL(url) succeeds
UrlParses(url) == HostAndPath(NewURL(url))

\* urlObj.pathname.split('/').filter(Boolean)
PathParts(url) == SelectSeq(SubSeq(NewURL(url), 3, Len(NewURL(url))), IsSegment)

\* parts.indexOf(x), 1-based, 0 when x is not a part
IndexOfPart(parts, x) ==
    IF \E i \in 1..Len(parts) : parts[i] = x
    THEN FirstOf({i \in 1..Len(parts) : parts[i] = x})
    ELSE 0

\* /^v\d+$/.test(part)
IsVersion(part) == part \in {"v1", "v22"}

\* afterUpload.findIndex(part => /^v\d+$/.test(part)), 1-based, 0 when none
VersionIndex(after) ==
    IF \E i \in 1..Len(after) : IsVersion(after[i])
    THEN FirstOf({i \in 1..Len(after) : IsVersion(after[i])})
    ELSE 0

\* parts.join('/')
RECURSIVE JoinSlash(_)
JoinSlash(parts) ==
    IF parts = <<>> THEN <<>>
    ELSE IF Len(parts) = 1 THEN <<parts[1]>>
    ELSE <<parts[1], "/">> \o JoinSlash(Tail(parts))

\* buildCloudinaryUrl({ base, version, imagePath, transforms })
buildCloudinaryUrl(base, version, imagePath, transforms) ==
    base \o <<"/", "image", "/", "upload", "/">>
         \o (IF transforms # <<>> THEN transforms \o <<"/">> ELSE <<>>)
         \o <<version, "/">> \o imagePath

\* the URL rebuilt from the parts after 'upload': version, image path, and
\* the transforms f_jpg,q_auto,w_600 in place of the original ones
Rebuilt(url, parts, after, versionIdx) ==
    buildCloudinaryUrl(<<"https://", NewURL(url)[2], "/", parts[1]>>, after[versionIdx],
                       JoinSlash(SubSeq(after, versionIdx + 1, Len(after))),
                       <<"f_jpg,q_auto,w_600">>)

\* parseCloudinaryUrl followed by buildCloudinaryUrl; the URL itself when
\* parseCloudinaryUrl returns null
ParsedAndBuilt(url, parts, imageIdx, uploadIdx) ==
    IF ~UrlParses(url) \/ imageIdx = 0 \/ uploadIdx = 0 \/ uploadIdx # imageIdx + 1
    THEN url
    ELSE IF VersionIndex(SubSeq(parts, uploadIdx + 1, Len(parts))) = 0 THEN url
    ELSE Rebuilt(url, parts, SubSeq(parts, uploadIdx + 1, Len(parts)),
                 VersionIndex(SubSeq(parts, uploadIdx + 1, Len(parts))))

\* the Cloudinary branch of transformCloudinaryUrlForEmail on the https URL
TransformCloudinary(httpsUrl) ==
    ParsedAndBuilt(httpsUrl, PathParts(httpsUrl),
                   IndexOfPart(PathParts(httpsUrl), "image"),
                   IndexOfPart(PathParts(httpsUrl), "upload"))

\* transformCloudinaryUrlForEmail(url, { width: 600, format: 'f_jpg',
\* quality: 'q_auto', enforceHttps: true }) for a non-empty string
transformCloudinaryUrlForEmail(url) ==
    IF ~isCloudinaryUrl(url) THEN enforceHttps(url)
    ELSE TransformCloudinary(enforceHttps(url))

\* the media URLs of a segment (imageUrlPromo): Cloudinary and other hosts,
\* with and without protocol, with paths that parse and paths that do not,
\* with a space after the host or at the end of the string
UrlInputs ==
    { p \o h \o t :
        p \in { <<>>, <<"http://">>, <<"https://">> },
        h \in { <<"res.cloudinary.com">>, <<"x.com">>, <<"res.cloudinary.com", " ">> },
        t \in { <<>>,
                <<"/", "demo", "/", "image", "/", "upload", "/", "v1", "/", "a.jpg">>,
                <<"/", "demo", "/", "image", "/", "upload", "/", "w_100", "/", "v22",
                  "/", "f", "/", "a.jpg">>,
                <<"/", "demo", "/", "image", "/", "upload", "/", "a.jpg">>,
                <<"/", "demo", "/", "upload", "/", "image", "/", "v1", "/", "a.jpg">>,
                <<"/", "demo", "/", "image", "/", "upload", "/", "v1">>,
                <<"/", "res.cloudinary.com", "/", "image", "/", "upload", "/", "v1",
                  "/", "a.jpg">>,
                <<"/", "demo", "/", "image", "/", "upload", "/", "v1", "/", "a.jpg", " ">>,
                <<"/", "a.jpg">> } }

(***************************************************************************)
(* Inputs: contacts of the segment service, request bodies, environment    *)
(***************************************************************************)
EmailA      == <<"a", "@", "x", ".", "c">>
EmailAUpper == <<"A", "@", "x", ".", "c">>
EmailAPad   == <<" ", "a", "@", "x", ".", "c", " ">>
EmailB      == <<"b", "@", "x", ".", "c">>
EmailBad    == <<"b", "a", "d">>
EmailTwoAt  == <<"a", "@", "@", "x", ".", "c">>

PhoneIntl   == <<"+", "5", "4", "9", "3", "6", "2", "4", "2", "3", "6", "0", "2", "0">>
PhoneLocal  == <<"3", "6", "2", " ", "4", "2", "3", "-", "6", "0", "2", "0">>
PhoneOther  == <<"+", "5", "4", "9", "1", "1", "4", "2", "3", "6", "0", "2", "1", "0">>
PhoneBad    == <<"a", "b", "c">>
None        == <<>>

\* one element of segmento.clientes; isNull marks a null entry of the array
Contact(e, t, raw, n) ==
    [isNull |-> FALSE, email |-> e, telefonoE164 |-> t, telefonoRaw |-> raw,
     nombre |-> n, vehiculo |-> None]

NullContact ==
    [isNull |-> TRUE, email |-> None, telefonoE164 |-> None, telefonoRaw |-> None,
     nombre |-> None, vehiculo |-> None]

\* the contact lists the segment service may return
Segments ==
    { <<Contact(EmailA, PhoneIntl, None, <<"A">>),
        Contact(EmailA, None, PhoneLocal, None),
        Contact(EmailBad, PhoneBad, None, <<"B">>)>>,
      <<Contact(EmailAUpper, PhoneBad, PhoneOther, None),
        NullContact,
        Contact(EmailAPad, None, None, None),
        Contact(EmailA, PhoneIntl, None, None)>>,
      <<Contact(EmailTwoAt, PhoneBad, None, None), NullContact>>,
      <<Contact(EmailB, PhoneBad, None, <<"B">>),
        Contact(EmailBad, PhoneOther, None, None)>> }

\* the segments of a single contact
SmallSegments == { <<Contact(EmailA, PhoneIntl, None, <<"A">>)>> }

\* the segments of two contacts, both with a phone WhatsApp accepts
PairSegments ==
    { <<Contact(None, PhoneIntl, None, <<"A">>), Contact(None, PhoneOther, None, None)>> }

\* the phone texts handed to the normalisers: Argentine numbers written
\* with and without '+', calling code, trunk 0, mobile 9, embedded 15,
\* separators and padding, with subscriber parts of the right and wrong length
PhoneInputs ==
    { l \o p \o a \o m \o b \o l :
        l \in { <<>>, <<" ">> },
        p \in { <<>>, <<"+">>, <<"+", "5", "4">>, <<"5", "4">>, <<"0">>,
                <<"+", "5", "4", "9">>, <<"5", "4", "9">>, <<"+", "5", "4", "0">> },
        a \in { <<"1", "1">>, <<"(", "3", "6", "2", ")">>, <<"3", "6", "2">> },
        m \in { <<>>, <<"1", "5">>, <<" ", "1", "5", "-">> },
        b \in { <<"4", "2", "3", "6", "0", "2", "0">>,
                <<"4", "2", "3", "6", "0", "2", "0", "1">>,
                <<"4", "1", "5", "6", "-", "0", "2", "0">>,
                <<"4", "2", "3", "6", "0", "2">>,
                <<"4", "2", "3", "6", "0", "2", "0", "1", "5", "7">> } }
      \cup {None, PhoneBad, PhoneIntl, PhoneLocal, PhoneOther}

\* a North American and a Spanish number in international writing
PhoneUS == <<"+", "1", "4", "1", "5", "5", "5", "5", "2", "6", "7", "1">>
PhoneES == <<"+", "3", "4", "6", "1", "2", "3", "4", "5", "6", "7", "8">>

\* the phone texts of other countries: valid and invalid numbers of the
\* calling codes 1 and 34, a calling code the library model does not know,
\* and a foreign number written without its '+'
PhoneInputsAbroad ==
    { l \o t \o l :
        l \in { <<>>, <<" ">> },
        t \in { PhoneUS,
                <<"+", "1", " ", "(", "4", "1", "5", ")", " ", "5", "5", "5", "-",
                  "2", "6", "7", "1">>,
                <<"+", "1", "4", "1", "5", "5", "5", "5", "2", "6", "7">>,
                <<"+", "1", "0", "1", "5", "5", "5", "5", "2", "6", "7", "1">>,
                <<"+", "1", "4", "1", "5", "1", "5", "5", "2", "6", "7", "1">>,
                Tail(PhoneUS),
                PhoneES,
                <<"+", "3", "4", " ", "6", "1", "2", " ", "3", "4", "5", " ",
                  "6", "7", "8">>,
                <<"+", "3", "4", "1", "1", "2", "3", "4", "5", "6", "7", "8">>,
                <<"+", "3", "4", "6", "1", "2", "3", "4", "5", "6", "7", "8", "9">>,
                <<"+", "5", "5", "1", "1", "9", "8", "7", "6", "5", "4", "3", "2", "1">> } }

\* n times the digit 5
RECURSIVE Fives(_)
Fives(n) == IF n = 0 THEN <<>> ELSE <<"5">> \o Fives(n - 1)

\* the values pn.number may have, whatever numbering plans the library
\* knows: '+', a calling code and a national number, at most fifteen digits
\* in all, with and without a 15 after the calling code or the area code
LibNumbers ==
    { n \in { <<"+">> \o c \o m \o Fives(k) :
                c \in { <<"1">>, <<"7">>, <<"3", "4">>, <<"5", "4">>, <<"5", "4", "9">>,
                        <<"5", "9", "8">> },
                m \in { <<>>, <<"1", "5">>, <<"1", "1", "1", "5">> },
                k \in 4..13 } : Len(n) <= 16 }

\* the candidates handed to isValidE164: every length around the limits,
\* every kind of first character, with and without padding or a letter
E164Inputs ==
    { l \o f \o Fives(n) \o t :
        l \in { <<>>, <<" ">> }, f \in { <<>>, <<"0">>, <<"1">>, <<"+">>, <<"a">> },
        n \in 0..16, t \in { <<>>, <<" ">>, <<"x">> } }

\* the segments of distinct valid addresses, for the email channel
MailSegments ==
    { <<Contact(EmailA, None, None, None), Contact(EmailB, None, None, None)>>,
      <<Contact(EmailA, None, None, None), Contact(EmailB, None, None, None),
        Contact(EmailAUpper, None, None, None)>> }

\* the values of MAILER_RATE_LIMIT_MAX_RPS of a deployment
RpsChoices == {1, 5}

\* the time up to which the clock is followed, in milliseconds
MaxTime == 1000

\* process.env.DEFAULT_PHONE_COUNTRY || 'AR'
defaultCountry == "AR"

(***************************************************************************)
(* sendCampaignCore, step 3: one pass over segmento.clientes               *)
(***************************************************************************)
EmptyPass == [seen |-> {}, contacts |-> <<>>, invalidos |-> 0, duplicados |-> 0]

\* a variant of the email branch that leaves out the seenEmails test
EmailStepNoDedup(c, acc) ==
    LET email == Trim(c.email) IN
    IF email = <<>> THEN [acc EXCEPT !.invalidos = @ + 1]
    ELSE IF ~EMAIL_RE_test(email) THEN [acc EXCEPT !.invalidos = @ + 1]
    ELSE [acc EXCEPT !.seen = @ \cup {email},
                     !.contacts = Append(@, [email |-> email, nombre |-> c.nombre,
                                             vehiculo |-> c.vehiculo])]

\* the email branch of the loop body for one contact
EmailStep(c, acc) ==
    LET email == Trim(c.email) IN
    IF email = <<>> THEN [acc EXCEPT !.invalidos = @ + 1]
    ELSE IF ~EMAIL_RE_test(email) THEN [acc EXCEPT !.invalidos = @ + 1]
    ELSE IF email \in acc.seen THEN [acc EXCEPT !.duplicados = @ + 1]
    ELSE [acc EXCEPT !.seen = @ \cup {email},
                     !.contacts = Append(@, [email |-> email, nombre |-> c.nombre,
                                             vehiculo |-> c.vehiculo])]

\* phoneE164 = normalizeWhatsAppPhone(c.telefonoRaw) when the first try gave null
SecondTry(c, first) ==
    IF first = <<>> /\ c.telefonoRaw # <<>>
    THEN normalizeWhatsAppPhone(c.telefonoRaw, defaultCountry)
    ELSE first

\* the phone the WhatsApp branch settles on: telefonoE164 first, then telefonoRaw
ContactPhone(c) ==
    SecondTry(c, IF c.telefonoE164 # <<>>
                 THEN normalizeWhatsAppPhone(c.telefonoE164, defaultCountry)
                 ELSE <<>>)

\* the tests of the WhatsApp branch on the phone it settled on
WhatsAppAccept(c, acc, phoneE164) ==
    IF phoneE164 = <<>> THEN [acc EXCEPT !.invalidos = @ + 1]
    ELSE IF ~isValidE164(phoneE164) THEN [acc EXCEPT !.invalidos = @ + 1]
    ELSE IF phoneE164 \in acc.seen THEN [acc EXCEPT !.duplicados = @ + 1]
    ELSE [acc EXCEPT !.seen = @ \cup {phoneE164},
                     !.contacts = Append(@, [telefonoE164 |-> phoneE164,
                                             nombre |-> c.nombre,
                                             vehiculo |-> c.vehiculo])]

\* the WhatsApp branch of the loop body for one contact
WhatsAppStep(c, acc) == WhatsAppAccept(c, acc, ContactPhone(c))

\* for (const c of clientes): the email side, when canales includes 'email'
RECURSIVE EmailPass(_, _)
EmailPass(clientes, acc) ==
    IF clientes = <<>> THEN acc
    ELSE IF Head(clientes).isNull THEN EmailPass(Tail(clientes), acc)
    ELSE EmailPass(Tail(clientes), EmailStep(Head(clientes), acc))

\* a variant of the WhatsApp side that passes over a contact whose email is
\* empty or malformed, as if the email branch ended the iteration
RECURSIVE WhatsAppPassAfterEmail(_, _)
WhatsAppPassAfterEmail(clientes, acc) ==
    IF clientes = <<>> THEN acc
    ELSE IF Head(clientes).isNull THEN WhatsAppPassAfterEmail(Tail(clientes), acc)
    ELSE IF ~EMAIL_RE_test(Trim(Head(clientes).email))
         THEN WhatsAppPassAfterEmail(Tail(clientes), acc)
    ELSE WhatsAppPassAfterEmail(Tail(clientes), WhatsAppStep(Head(clientes), acc))

\* for (const c of clientes): the WhatsApp side, when canales includes 'whatsapp'
RECURSIVE WhatsAppPass(_, _)
WhatsAppPass(clientes, acc) ==
    IF clientes = <<>> THEN acc
    ELSE IF Head(clientes).isNull THEN WhatsAppPass(Tail(clientes), acc)
    ELSE WhatsAppPass(Tail(clientes), WhatsAppStep(Head(clientes), acc))

\* the result of the pass for a campaign with channel set canales
ClassifyEmail(clientes, canales) ==
    IF "email" \in canales THEN EmailPass(clientes, EmptyPass) ELSE EmptyPass

ClassifyWhatsApp(clientes, canales) ==
    IF "whatsapp" \in canales THEN WhatsAppPass(clientes, EmptyPass) ELSE EmptyPass

(***************************************************************************)
(* Program constants and the bounds of the model                           *)
(***************************************************************************)
\* options.attempts ?? 3 (runFordWhatsAppCampaign); BullMQ job option attempts
attempts == 3

\* the values of WHATSAPP_TEMPLATE_BODY_PARAMS_COUNT a deployment may set
\* (Number(process.env...) || 2)
ExpectedBodyParamsChoices == {2, 3}

\* the dispatch runs that may overlap: run 1 is started by
\* createCampaignFromRag, run 2 by sendCampaign (a re-send), again and again
RunIds == {1, 2}

\* sendCampaign requests per execution
MaxSends == 1

\* WhatsApp worker processes (each with concurrency 1)
NumWaWorkers == 2

\* req.body.canales of createCampaignFromRag, already lowercased and trimmed
ChannelChoices == {{"email"}, {"whatsapp"}, {"email", "whatsapp"}}

NoError == "null"

\* a path of a document or a property of an object that was never set
Undefined == "undefined"

\* req.body.jwtToken of createCampaignFromRag: a token or none
NoToken == ""
JwtChoices == {NoToken, "jwt"}

campaignId == "c1"

\* options.templateName || campaign.plantillaWhatsApp?.templateName ||
\* process.env.WHATSAPP_TEMPLATE_NAME || 'promo_ford_mes'
templateName == "promo_ford_mes"

VARIABLES
    segment,            \* segmento.clientes as the segment service returns it
    expectedBodyParams, \* Number(process.env.WHATSAPP_TEMPLATE_BODY_PARAMS_COUNT) || 2
    campaign,           \* the Campaign document in MongoDB
    crPc,               \* position of the createCampaignFromRag request
    runs,               \* sendCampaign requests and their sendCampaignCore runs
    emailQueue,         \* jobs of the BullMQ queue 'emails'
    waQueue,            \* jobs of the BullMQ queue 'whatsapp'
    waCreated,          \* history: every job ever created in the WhatsApp queue
    sends,              \* sendCampaign requests made so far
    retryCall,          \* one call of retry(fn, opts): its locals and its history
    mailerRps,          \* Number(process.env.MAILER_RATE_LIMIT_MAX_RPS || '5')
    now,                \* Date.now(), in milliseconds since the service started
    emailWorker,        \* the Worker of the queue 'emails': its active job, its history
    utilCall,           \* one call of a utility function: its argument and its result
    webhook,            \* POST /webhook: the Redis keys, the deliveries, the history
    authLimit           \* rateLimitByEmail: the counter key of one email, the requests

vars == <<segment, expectedBodyParams, campaign, crPc, runs, emailQueue, waQueue,
          waCreated, sends, retryCall, mailerRps, now, emailWorker, utilCall,
          webhook, authLimit>>

\* login requests for one email in flight at once, expiries of its counter key
NumRequests == 4
MaxKeyExpiries == 1

\* const maxAttempts = 3
maxAttempts == 3

\* the key rate_limit:auth:<email> is absent, no request was made
NoAuthLimit ==
    [key |-> [exists |-> FALSE, value |-> 0, ttl |-> FALSE],
     reqs |-> [q \in 1..NumRequests |-> [pc |-> "idle", currentAttempts |-> 0]],
     passed |-> 0, resets |-> 0, expiries |-> 0]

\* webhook deliveries in flight at once, message ids, expiries of a key
NumDeliveries == 3
MessageIds == {"wamid.1", "wamid.2"}
MaxExpiries == 1

\* no key in Redis, no delivery received, handleUserQuestion never invoked
NoWebhook ==
    [redis |-> {},
     reqs |-> [d \in 1..NumDeliveries |-> [pc |-> "idle", id |-> "", isNew |-> FALSE]],
     handled |-> [m \in MessageIds |-> 0],
     expiries |-> [m \in MessageIds |-> 0],
     completed |-> [m \in MessageIds |-> 0],
     dropped |-> [m \in MessageIds |-> 0]]

\* no utility function is being called
NoCall == [fn |-> "none"]

\* new Worker('emails', ...) before its first job: no active job, and the
\* history of the jobs it started in the current one-second window
IdleWorker == [active |-> {}, windowStart |-> 0, started |-> 0]

\* const delayBetweenJobsMs = Math.floor(1000 / rps)
delayBetweenJobsMs(rps) == 1000 \div rps

\* no call of retry is in progress
IdleRetry ==
    [pc |-> "idle", retries |-> 0, attempt |-> 0, delay |-> 0, calls |-> 0,
     failures |-> 0, lastErr |-> NoError, result |-> 0, thrown |-> NoError]

ZeroMetrics ==
    [whatsapp |-> [encolados |-> 0, omitidos |-> 0, enviados |-> 0, fallidos |-> 0],
     email    |-> [encolados |-> 0, enviados |-> 0, fallidos |-> 0]]

\* an id that is absent (null, undefined)
NoId == ""

\* req.user as the authentication middleware sets it: the user that owns the
\* campaigns of the model, a user of another tenant, a user without a tenant
\* and a request without a user
OwnerUser == [tenantId |-> "tenantB", userId |-> "userB"]
Users ==
    {OwnerUser, [tenantId |-> "tenantA", userId |-> "userA"],
     [tenantId |-> NoId, userId |-> "userC"], [tenantId |-> NoId, userId |-> NoId]}

\* const tenantId = user.tenantId || userId
getTenantAndUserFromReq(user) ==
    [tenantId |-> IF user.tenantId # NoId THEN user.tenantId ELSE user.userId,
     userId |-> user.userId]

\* the state of the collection before CampaignModel.create
NoCampaign ==
    [exists |-> FALSE, estado |-> "CREADA", lastError |-> Undefined, canales |-> {},
     jwtToken |-> NoToken, metrics |-> ZeroMetrics, tenantId |-> NoId]

\* CampaignModel.create({... estado: 'CREADA' ...}) with the schema defaults;
\* lastError has no default in the schema and is not set
NewCampaign(canales) ==
    [exists |-> TRUE, estado |-> "CREADA", lastError |-> Undefined, canales |-> canales,
     jwtToken |-> "jwt", metrics |-> ZeroMetrics,
     tenantId |-> getTenantAndUserFromReq(OwnerUser).tenantId]

IdleRun ==
    [pc |-> "idle", n |-> 0, docEstado |-> "CREADA", docLastError |-> Undefined,
     doc |-> ZeroMetrics, canales |-> {}, jwtToken |-> NoToken, ragHeaders |-> {},
     email |-> EmptyPass, whatsapp |-> EmptyPass,
     i |-> 0,
     emEncolados |-> 0, emErrores |-> 0, emAttempts |-> <<>>, emTimes |-> <<>>,
     emRenderFailed |-> 0,
     waEncolados |-> 0, waSkipped |-> 0, waErrores |-> 0, waAttempts |-> <<>>,
     emProcessed |-> 0, emFailedAt |-> 0, waProcessed |-> 0, waFailedAt |-> 0,
     classified |-> FALSE, saveFailed |-> FALSE, updateFailed |-> FALSE, outcome |-> "none", err |-> NoError,
     status |-> 0, reqTenant |-> NoId, wakeAt |-> 0, lookup |-> "none"]

\* the segments of one contact, the default parameter count
Init ==
    /\ segment \in SmallSegments
    /\ expectedBodyParams = 2
    /\ campaign = NoCampaign
    /\ crPc = "start"
    /\ runs = [r \in RunIds |-> IdleRun]
    /\ emailQueue = {}
    /\ waQueue = {}
    /\ waCreated = {}
    /\ sends = 0
    /\ retryCall = IdleRetry
    /\ mailerRps = 5
    /\ now = 0
    /\ emailWorker = IdleWorker
    /\ webhook = NoWebhook
    /\ authLimit = NoAuthLimit
    /\ utilCall = NoCall

(***************************************************************************)
(* BullMQ queues (mailer/queue.js)                                         *)
(***************************************************************************)
\* const jobId = `wa:${campaignId}:${to}:${templateName}`
JobId(cid, to, tpl) == <<"wa", cid, to, tpl>>

\* Queue.add(name, data, { jobId, attempts, ... }): a job whose id is already
\* in the queue (waiting, active, delayed or retained as failed) is returned
\* and nothing is added.  by = <<run number, contact>> tells the submissions apart.
\* a variant of add in which the queue numbers the job itself, as when no jobId is passed
QueueAddAlways(queue, jid, by, data) ==
    queue \cup {[jid |-> jid, by |-> by, data |-> data, st |-> "waiting",
                 attemptsMade |-> 0, lastErr |-> NoError, calledUnder |-> 0,
                 httpCalls |-> 0]}

QueueAddWithId(queue, jid, by, data) ==
    IF \E j \in queue : j.jid = jid THEN queue
    ELSE queue \cup {[jid |-> jid, by |-> by, data |-> data, st |-> "waiting",
                      attemptsMade |-> 0, lastErr |-> NoError, calledUnder |-> 0,
                 httpCalls |-> 0]}

\* enqueueWhatsApp(data, opts): the queue after whatsappQueue.add
enqueueWhatsApp(queue, data, by) ==
    QueueAddWithId(queue, JobId(data.campaignId, data.to, data.templateName), by, data)

\* enqueueEmail(data, opts): emailQueue.add without a jobId (BullMQ numbers it)
enqueueEmail(queue, data, by) ==
    queue \cup {[by |-> by, data |-> data, attemptsMade |-> 0, notBefore |-> 0]}

(***************************************************************************)
(* createCampaignFromRag and sendCampaign (the request handlers)           *)
(***************************************************************************)
\* campaign.estado = 'ENVIANDO'; campaign.lastError = null; campaign.save().
\* docEstado and docLastError are the values of the document in hand when it
\* was created or loaded.  Mongoose writes only the paths whose value the
\* assignment changed: null over an unset lastError or over a message is a
\* change and is written, whatever the collection holds by then; null over
\* null is not
SaveEstado(c, docEstado, docLastError) ==
    [c EXCEPT !.estado    = IF docEstado # "ENVIANDO" THEN "ENVIANDO" ELSE @,
              !.lastError = IF docLastError # NoError THEN NoError ELSE @]

\* the API process is running: no unhandled rejection has ended it
\* (process.on('unhandledRejection', ...) calls process.exit(1))
ProcessUp == \A r \in RunIds : runs[r].pc # "exited"

\* the segment is validated (axios.get), then the record is created as CREADA
\* with the jwtToken of the request body
CreateValidateWith(canales, jwtToken) ==
    /\ crPc = "start"
    /\ ProcessUp
    /\ \/ /\ crPc' = "done"     \* 404 / 502 / no data: nothing is created
          /\ UNCHANGED campaign
       \/ /\ campaign' = [NewCampaign(canales) EXCEPT !.jwtToken = jwtToken]
          /\ crPc' = "created"
    /\ UNCHANGED <<authLimit, webhook, utilCall, mailerRps, now, emailWorker, retryCall, segment, expectedBodyParams, runs, emailQueue, waQueue, waCreated, sends>>

\* the request of a client that sends its token
CreateValidate(canales) == CreateValidateWith(canales, "jwt")

\* a variant of the end of createCampaignFromRag that starts the dispatch run
\* whether or not the save of ENVIANDO went through
CreateDispatchUnconditionally ==
    /\ crPc = "created"
    /\ ProcessUp
    /\ crPc' = "done"
    /\ runs' = [runs EXCEPT ![1].pc = "load", ![1].n = 1]
    /\ \/ campaign' = SaveEstado(campaign, "CREADA", Undefined)
       \/ UNCHANGED campaign
    /\ UNCHANGED <<authLimit, webhook, utilCall, mailerRps, now, emailWorker, retryCall, segment,
                   expectedBodyParams, emailQueue, waQueue, waCreated, sends>>

\* campaign.estado = 'ENVIANDO'; campaign.lastError = null; await
\* campaign.save(); sendCampaignCore(...).  The document in hand is the one
\* CampaignModel.create returned: CREADA, lastError unset
CreateMarkSending ==
    /\ crPc = "created"
    /\ ProcessUp
    /\ crPc' = "done"
    /\ \/ /\ campaign' = SaveEstado(campaign, "CREADA", Undefined)
          /\ runs' = [runs EXCEPT ![1].pc = "load", ![1].n = 1]
       \/ UNCHANGED <<campaign, runs>>      \* save throws: 500, no run
    /\ UNCHANGED <<authLimit, webhook, utilCall, mailerRps, now, emailWorker, retryCall, segment, expectedBodyParams, emailQueue, waQueue, waCreated, sends>>

\* a variant of the query that selects by _id alone
FindOneById(c, tenantId) == c.exists

\* CampaignModel.findOne({ _id: campaignId, tenantId }) returned a document
FindOne(c, tenantId) == c.exists /\ c.tenantId = tenantId

\* the request of sendCampaign answered with status before anything is written
Answered(n, tenantId, status) ==
    [IdleRun EXCEPT !.pc = "done", !.n = n, !.reqTenant = tenantId, !.status = status]

\* sendCampaign up to the query: 401 without a tenant; findOne rejects and
\* the catch answers 500; 404 when findOne returns null; else the document is
\* in hand.  lookup is the history of what findOne did
AfterFindOne(c, n, tenantId, lookup) ==
    IF tenantId = NoId THEN Answered(n, tenantId, 401)
    ELSE IF lookup = "rejects"
    THEN [Answered(n, tenantId, 500) EXCEPT !.lookup = lookup]
    ELSE IF ~FindOne(c, tenantId)
    THEN [Answered(n, tenantId, 404) EXCEPT !.lookup = lookup]
    ELSE [IdleRun EXCEPT !.pc = "marking", !.n = n, !.reqTenant = tenantId,
                         !.lookup = lookup,
                         !.docEstado = c.estado, !.docLastError = c.lastError]

\* POST /api/campaigns/:campaignId/send by req.user = user
SendCampaignRequest(r, user) ==
    /\ r # 1
    /\ runs[r].pc \in {"idle", "done"}
    /\ ProcessUp
    /\ sends < MaxSends
    /\ sends' = sends + 1
    /\ \E lookup \in {"resolves", "rejects"} :
          runs' = [runs EXCEPT ![r] = AfterFindOne(campaign, sends + 2,
                                                  getTenantAndUserFromReq(user).tenantId,
                                                  lookup)]
    /\ UNCHANGED <<authLimit, webhook, utilCall, mailerRps, now, emailWorker, retryCall, segment,
                   expectedBodyParams, campaign, crPc, emailQueue, waQueue, waCreated>>

\* sendCampaign by the owner of a campaign that exists: findOne finds it, or
\* rejects
SendCampaignFind(r) ==
    /\ campaign.exists
    /\ SendCampaignRequest(r, OwnerUser)

\* sendCampaign: estado = 'ENVIANDO', lastError = null, save, then the run starts
SendCampaignSave(r) ==
    /\ runs[r].pc = "marking"
    /\ ProcessUp
    /\ \/ /\ campaign' = SaveEstado(campaign, runs[r].docEstado, runs[r].docLastError)
          /\ runs' = [runs EXCEPT ![r].pc = "load", ![r].status = 202]
       \/ /\ runs' = [runs EXCEPT ![r].pc = "done", ![r].status = 500]    \* save throws
          /\ UNCHANGED campaign
    /\ UNCHANGED <<authLimit, webhook, utilCall, mailerRps, now, emailWorker, retryCall, segment, expectedBodyParams, crPc, emailQueue, waQueue, waCreated, sends>>

(***************************************************************************)
(* sendCampaignCore                                                        *)
(***************************************************************************)
Settle(run, outcome, err) ==
    [run EXCEPT !.pc = IF outcome = "resolved" THEN "resolved" ELSE "rejected",
                !.outcome = outcome, !.err = err]

\* a variant of the step after findById that throws when the campaign has
\* no stored token
AfterLoadTokenRequired(run, c) ==
    IF c.jwtToken = NoToken THEN Settle(run, "rejected", "jwtToken")
    ELSE [run EXCEPT !.pc = "fetch", !.doc = c.metrics, !.canales = c.canales,
                     !.jwtToken = c.jwtToken, !.ragHeaders = {"Authorization"}]

\* const ragHeaders = {}; if (jwtToken) ragHeaders.Authorization = `Bearer ${jwtToken}`
RagHeaders(jwtToken) == IF jwtToken # NoToken THEN {"Authorization"} ELSE {}

\* the run once findById returned the campaign c: segmentId and jwtToken are
\* taken from it and the headers of the segment call are built
AfterLoad(run, c) ==
    [run EXCEPT !.pc = "fetch", !.doc = c.metrics, !.canales = c.canales,
                !.jwtToken = c.jwtToken, !.ragHeaders = RagHeaders(c.jwtToken)]

\* const campaign = await CampaignModel.findById(campaignId)
Load(r) ==
    /\ runs[r].pc = "load"
    /\ ProcessUp
    /\ \/ runs' = [runs EXCEPT ![r] = AfterLoad(@, campaign)]
       \/ runs' = [runs EXCEPT ![r] = Settle(@, "rejected", "findById")]
    /\ UNCHANGED <<authLimit, webhook, utilCall, mailerRps, now, emailWorker, retryCall, segment, expectedBodyParams, campaign, crPc, emailQueue, waQueue,
                   waCreated, sends>>

\* what follows the segment response up to the first await of a channel run
AfterFetch(run, clientes) ==
    LET em == ClassifyEmail(clientes, run.canales)
        wa == ClassifyWhatsApp(clientes, run.canales)
        hasEmail    == "email" \in run.canales /\ Len(em.contacts) > 0
        hasWhatsApp == "whatsapp" \in run.canales /\ Len(wa.contacts) > 0
        classified == [run EXCEPT !.email = em, !.whatsapp = wa, !.i = 1,
                                  !.classified = TRUE]
    IN  IF ~hasEmail /\ ~hasWhatsApp THEN Settle(classified, "resolved", NoError)
        ELSE IF hasEmail THEN [classified EXCEPT !.pc = "email"]
        ELSE [classified EXCEPT !.pc = "wa"]

\* await axios.get(`${VECTOR_RAG_BASE_URL}/api/segments/${segmentId}`) and the
\* synchronous pass over the contacts
Fetch(r) ==
    /\ runs[r].pc = "fetch"
    /\ ProcessUp
    /\ \/ runs' = [runs EXCEPT ![r] = Settle(@, "rejected", "segment")]
       \/ runs' = [runs EXCEPT ![r] = AfterFetch(@, segment)]
    /\ UNCHANGED <<authLimit, webhook, utilCall, mailerRps, now, emailWorker, retryCall, segment, expectedBodyParams, campaign, crPc, emailQueue, waQueue,
                   waCreated, sends>>

(***************************************************************************)
(* runFordCampaign (email engine) and runFordWhatsAppCampaign              *)
(***************************************************************************)
HasWhatsApp(run) == "whatsapp" \in run.canales /\ Len(run.whatsapp.contacts) > 0

\* the first failing contact of an engine run is remembered (history)
FirstFailure(old, i) == IF old = 0 THEN i ELSE old

\* for await (const cli of contacts) of runFordCampaign: the try/catch of
\* contact run.i; outcome is what render and enqueue did ("ok", "render",
\* "enqueue")
EmailLoopBody(run, outcome) ==
    LET cli == run.email.contacts[run.i]
        counted ==
            IF outcome = "ok"
            THEN [run EXCEPT !.emEncolados = @ + 1,
                             !.emAttempts = Append(@, cli.email)]
            ELSE IF outcome = "enqueue"
            THEN [run EXCEPT !.emErrores = @ + 1,
                             !.emAttempts = Append(@, cli.email),
                             !.emFailedAt = FirstFailure(@, run.i)]
            ELSE [run EXCEPT !.emErrores = @ + 1,
                             !.emRenderFailed = @ + 1,
                             !.emFailedAt = FirstFailure(@, run.i)]
    IN  [counted EXCEPT !.emProcessed = run.i]

\* the end of one pass of the loop of runFordCampaign: the next contact, or
\* what follows the loop (the WhatsApp engine, or the end of the run)
EmailLoopNext(run) ==
    LET stepped == [run EXCEPT !.pc = "email", !.i = run.i + 1, !.wakeAt = 0]
    IN  IF run.i < Len(run.email.contacts) THEN stepped
        ELSE IF HasWhatsApp(run) THEN [stepped EXCEPT !.pc = "wa", !.i = 1]
        ELSE Settle(stepped, "resolved", NoError)

\* the data of the email job of one contact
EmailJobData(run, cli) == [to |-> cli.email, campaignId |-> campaignId]

\* history: the time of every call of enqueueEmail of the run (a contact
\* whose render threw never reaches enqueueEmail); the run then waits for
\* emailQueue.add
SubmittedAt(run, t) == [run EXCEPT !.pc = "emailAdd", !.emTimes = Append(@, t)]

\* a variant of the end of the loop body that sleeps only after a contact
\* that was enqueued
AfterContactOkOnly(t, rps, outcome) ==
    IF outcome = "ok" THEN t + delayBetweenJobsMs(rps) ELSE t

\* if (delayBetweenJobsMs > 0) await sleep(delayBetweenJobsMs), after the
\* try/catch of the contact: the time at which the sleep ends (t when the
\* loop does not sleep)
AfterContact(t, rps, outcome) ==
    IF delayBetweenJobsMs(rps) > 0 THEN t + delayBetweenJobsMs(rps) ELSE t

\* the run after the try/catch of a contact: suspended in sleep until wakeAt,
\* or straight on to the next pass when the loop does not sleep
AwaitSleep(run, t, wakeAt) ==
    IF wakeAt > t THEN [run EXCEPT !.pc = "emailSleep", !.wakeAt = wakeAt]
    ELSE EmailLoopNext(run)

\* one contact of runFordCampaign up to the call of enqueueEmail: the render
\* throws (the catch counts the contact and the run goes to its sleep), or
\* enqueueEmail is called at the present instant and emailQueue.add is pending
EmailContact(r) ==
    /\ runs[r].pc = "email"
    /\ ProcessUp
    /\ \/ runs' = [runs EXCEPT ![r] =
                        AwaitSleep(EmailLoopBody(@, "render"), now,
                                   AfterContact(now, mailerRps, "render"))]
       \/ runs' = [runs EXCEPT ![r] = SubmittedAt(@, now)]
    /\ UNCHANGED <<authLimit, webhook, utilCall, mailerRps, now, emailWorker, retryCall, segment, expectedBodyParams, campaign,
                   crPc, emailQueue, waQueue, waCreated, sends>>

\* await enqueueEmail(...) settles, at an instant not before its call: the
\* job is in the queue (or the add threw and the catch counts the contact);
\* the sleep of the run starts at this instant
EnqueueEmailSettles(r) ==
    /\ runs[r].pc = "emailAdd"
    /\ ProcessUp
    /\ \E outcome \in {"ok", "enqueue"} :
          /\ runs' = [runs EXCEPT ![r] =
                         AwaitSleep(EmailLoopBody(@, outcome), now,
                                    AfterContact(now, mailerRps, outcome))]
          /\ emailQueue' =
                IF outcome = "ok"
                THEN enqueueEmail(emailQueue,
                                  EmailJobData(runs[r], runs[r].email.contacts[runs[r].i]),
                                  <<runs[r].n, runs[r].i>>)
                ELSE emailQueue
    /\ UNCHANGED <<authLimit, webhook, utilCall, mailerRps, now, emailWorker, retryCall, segment, expectedBodyParams, campaign,
                   crPc, waQueue, waCreated, sends>>

\* the later of two instants
Max(a, b) == IF a >= b THEN a ELSE b

\* the timer of sleep(delayBetweenJobsMs) fires: the clock has reached the
\* wake time (sleeps of overlapping runs pass concurrently) and the loop goes
\* on with the next contact
EmailSleepEnds(r) ==
    /\ runs[r].pc = "emailSleep"
    /\ ProcessUp
    /\ now' = Max(now, runs[r].wakeAt)
    /\ runs' = [runs EXCEPT ![r] = EmailLoopNext(@)]
    /\ UNCHANGED <<authLimit, webhook, utilCall, mailerRps, emailWorker, retryCall, segment, expectedBodyParams, campaign,
                   crPc, emailQueue, waQueue, waCreated, sends>>

\* const bodyParams = [cli.nombre || 'Cliente', cli.vehiculo || 'modelos seleccionados']
BodyParams(cli) ==
    << IF cli.nombre # <<>> THEN cli.nombre ELSE <<"Cliente">>,
       IF cli.vehiculo # <<>> THEN cli.vehiculo ELSE <<"modelos seleccionados">> >>

\* the two `continue` branches of runFordWhatsAppCampaign
WhatsAppSkips(cli, expected) ==
    cli.telefonoE164 = <<>> \/ Len(BodyParams(cli)) # expected

\* the data of the WhatsApp job of one contact
WhatsAppJobData(cli) ==
    [to |-> cli.telefonoE164, templateName |-> templateName,
     bodyParams |-> BodyParams(cli), campaignId |-> campaignId]

\* the loop body of runFordWhatsAppCampaign for contact run.i; outcome is
\* "skip", "ok" or "enqueue" (enqueueWhatsApp threw)
WhatsAppLoopBody(run, outcome) ==
    LET cli == run.whatsapp.contacts[run.i]
        counted ==
            IF outcome = "skip" THEN [run EXCEPT !.waSkipped = @ + 1]
            ELSE IF outcome = "ok"
            THEN [run EXCEPT !.waEncolados = @ + 1,
                             !.waAttempts = Append(@, cli.telefonoE164)]
            ELSE [run EXCEPT !.waErrores = @ + 1,
                             !.waAttempts = Append(@, cli.telefonoE164),
                             !.waFailedAt = FirstFailure(@, run.i)]
        stepped == [counted EXCEPT !.waProcessed = run.i, !.i = run.i + 1]
    IN  IF run.i < Len(run.whatsapp.contacts) THEN stepped
        ELSE [stepped EXCEPT !.pc = "save"]

\* one contact of runFordWhatsAppCampaign
WhatsAppContact(r) ==
    LET run == runs[r]
        cli == run.whatsapp.contacts[run.i]
        added == enqueueWhatsApp(waQueue, WhatsAppJobData(cli), <<run.n, run.i>>)
    IN
    /\ run.pc = "wa"
    /\ ProcessUp
    /\ \/ /\ WhatsAppSkips(cli, expectedBodyParams)
          /\ runs' = [runs EXCEPT ![r] = WhatsAppLoopBody(@, "skip")]
          /\ UNCHANGED <<waQueue, waCreated, sends>>
       \/ /\ ~WhatsAppSkips(cli, expectedBodyParams)
          /\ runs' = [runs EXCEPT ![r] = WhatsAppLoopBody(@, "ok")]
          /\ waQueue' = added
          /\ waCreated' = waCreated \cup
                {<<j.jid, j.by>> : j \in added \ waQueue}
       \/ /\ ~WhatsAppSkips(cli, expectedBodyParams)
          /\ runs' = [runs EXCEPT ![r] = WhatsAppLoopBody(@, "enqueue")]
          /\ UNCHANGED <<waQueue, waCreated, sends>>
    /\ UNCHANGED <<authLimit, webhook, utilCall, mailerRps, now, emailWorker, retryCall, segment, expectedBodyParams, campaign, crPc, emailQueue, sends>>

\* campaign.metrics.whatsapp.encolados = (... || 0) + encolados, the same for
\* omitidos, then campaign.save(): the document loaded by findById is changed
\* and Mongoose writes the paths whose value changed
SaveMetrics(c, doc, encolados, skipped) ==
    [c EXCEPT !.metrics.whatsapp.encolados =
                    IF encolados # 0 THEN doc.whatsapp.encolados + encolados ELSE @,
              !.metrics.whatsapp.omitidos =
                    IF skipped # 0 THEN doc.whatsapp.omitidos + skipped ELSE @]

\* the end of runFordWhatsAppCampaign: await campaign.save()
SaveCounters(r) ==
    /\ runs[r].pc = "save"
    /\ ProcessUp
    /\ \/ /\ campaign' = SaveMetrics(campaign, runs[r].doc, runs[r].waEncolados,
                                     runs[r].waSkipped)
          /\ runs' = [runs EXCEPT ![r] = Settle(@, "resolved", NoError)]
       \/ /\ runs' = [runs EXCEPT ![r] = [Settle(@, "rejected", "save")
                                            EXCEPT !.saveFailed = TRUE]]
          /\ UNCHANGED campaign
    /\ UNCHANGED <<authLimit, webhook, utilCall, mailerRps, now, emailWorker, retryCall, segment, expectedBodyParams, crPc, emailQueue, waQueue, waCreated, sends>>

(***************************************************************************)
(* The completion callbacks: sendCampaignCore(...).then(...).catch(...)    *)
(***************************************************************************)
\* a variant of the update that writes estado and leaves lastError as it is
FindByIdAndUpdateEstado(c, estado, lastError) ==
    [c EXCEPT !.estado = estado]

\* CampaignModel.findByIdAndUpdate(id, { estado, lastError })
FindByIdAndUpdate(c, estado, lastError) ==
    [c EXCEPT !.estado = estado, !.lastError = lastError]

\* .then(async () => findByIdAndUpdate(id, { estado: 'COMPLETADA', lastError: null }))
\* a failure of the update lands in the .catch handler of the same chain
OnResolved(r) ==
    /\ runs[r].pc = "resolved"
    /\ ProcessUp
    /\ \/ /\ campaign' = FindByIdAndUpdate(campaign, "COMPLETADA", NoError)
          /\ runs' = [runs EXCEPT ![r].pc = "done"]
       \/ /\ runs' = [runs EXCEPT ![r].pc = "rejected", ![r].err = "findByIdAndUpdate"]
          /\ UNCHANGED campaign
    /\ UNCHANGED <<authLimit, webhook, utilCall, mailerRps, now, emailWorker, retryCall, segment, expectedBodyParams, crPc, emailQueue, waQueue, waCreated, sends>>

\* a variant of the .catch callback that logs the error and writes nothing
OnRejectedLogsOnly(r) ==
    /\ runs[r].pc = "rejected"
    /\ ProcessUp
    /\ runs' = [runs EXCEPT ![r].pc = "done"]
    /\ UNCHANGED <<authLimit, webhook, utilCall, mailerRps, now, emailWorker, retryCall, segment, expectedBodyParams, campaign, crPc, emailQueue, waQueue, waCreated, sends>>

\* .catch(async (err) => findByIdAndUpdate(id, { estado: 'FALLIDA', lastError: err.message }))
\* When the update rejects, the promise of the chain rejects with no handler:
\* the 'unhandledRejection' listener of the server logs it and calls
\* process.exit(1), which ends every request and every run of the process
OnRejected(r) ==
    /\ runs[r].pc = "rejected"
    /\ ProcessUp
    /\ \/ /\ campaign' = FindByIdAndUpdate(campaign, "FALLIDA", runs[r].err)
          /\ runs' = [runs EXCEPT ![r].pc = "done"]
       \/ /\ UNCHANGED campaign
          /\ runs' = [runs EXCEPT ![r].pc = "exited", ![r].updateFailed = TRUE]
    /\ UNCHANGED <<authLimit, webhook, utilCall, mailerRps, now, emailWorker, retryCall, segment, expectedBodyParams, crPc, emailQueue, waQueue, waCreated, sends>>

(***************************************************************************)
(* The WhatsApp worker (mailer/whatsapp-worker.js) under BullMQ            *)
(***************************************************************************)
ActiveJobs == {j \in waQueue : j.st = "active"}

\* the expectedBodyParams the processor passes to waSendTemplate: none (the
\* set is empty when the argument is undefined, {n} when it is n)
WorkerExpectedBodyParams == {}

\* if (expectedBodyParams !== undefined && bodyParams.length !== expectedBodyParams) throw
waSendTemplateRejects(bodyParams, expected) ==
    \E e \in expected : Len(bodyParams) # e

\* a variant of BullMQ's retry rule that grants one attempt more
JobAfterFailureOneMore(j, err) ==
    [j EXCEPT !.attemptsMade = @ + 1,
              !.lastErr = err,
              !.st = IF j.attemptsMade + 1 <= attempts THEN "waiting" ELSE "failed"]

\* the job after the processor threw err: BullMQ retries it (with backoff)
\* until attemptsMade reaches the job's attempts, whatever the error is
JobAfterFailure(j, err) ==
    [j EXCEPT !.attemptsMade = @ + 1,
              !.lastErr = err,
              !.st = IF j.attemptsMade + 1 < attempts THEN "waiting" ELSE "failed"]

\* BullMQ hands a waiting job to a worker that is free (concurrency: 1); the
\* processor calls waSendTemplate, which validates and then starts the HTTP
\* call: an active job is a job whose HTTP call was made.  calledUnder is
\* history: the expected count configured when the call was made.
WorkerTake(j) ==
    /\ j \in waQueue
    /\ j.st = "waiting"
    /\ Cardinality(ActiveJobs) < NumWaWorkers
    /\ waQueue' = (waQueue \ {j}) \cup
          {IF waSendTemplateRejects(j.data.bodyParams, WorkerExpectedBodyParams)
           THEN JobAfterFailure(j, "validation")
           ELSE [j EXCEPT !.st = "active", !.calledUnder = expectedBodyParams]}
    /\ UNCHANGED <<authLimit, webhook, utilCall, mailerRps, now, emailWorker, retryCall, segment, expectedBodyParams, campaign, crPc, runs, emailQueue,
                   waCreated, sends>>

\* the processor returned: the job is completed and, with removeOnComplete:
\* true, removed from the queue
WorkerSucceed(j) ==
    /\ j \in waQueue
    /\ j.st = "active"
    /\ waQueue' = waQueue \ {j}
    /\ UNCHANGED <<authLimit, webhook, utilCall, mailerRps, now, emailWorker, retryCall, segment, expectedBodyParams, campaign, crPc, runs, emailQueue,
                   waCreated, sends>>

\* the processor rethrew the error of waSendTemplate
WorkerFail(j) ==
    /\ j \in waQueue
    /\ j.st = "active"
    /\ \E err \in {"transient", "permanent"} :
          waQueue' = (waQueue \ {j}) \cup {JobAfterFailure(j, err)}
    /\ UNCHANGED <<authLimit, webhook, utilCall, mailerRps, now, emailWorker, retryCall, segment, expectedBodyParams, campaign, crPc, runs, emailQueue,
                   waCreated, sends>>

(***************************************************************************)
(* retry(fn, opts) and isRetryableError (utils/retry.js)                   *)
(***************************************************************************)
UpperLetters == <<"A", "B", "C", "D", "E", "F", "G", "H", "I", "J", "K", "L", "M",
                  "N", "O", "P", "Q", "R", "S", "T", "U", "V", "W", "X", "Y", "Z">>
LowerLetters == <<"a", "b", "c", "d", "e", "f", "g", "h", "i", "j", "k", "l", "m",
                  "n", "o", "p", "q", "r", "s", "t", "u", "v", "w", "x", "y", "z">>

\* the position of an upper-case letter in the alphabet, 0 for any other character
UpperIndex(ch) ==
    IF \E k \in 1..Len(UpperLetters) : UpperLetters[k] = ch
    THEN CHOOSE k \in 1..Len(UpperLetters) : UpperLetters[k] = ch
    ELSE 0

LowerOfIndex(ch, k) == IF k = 0 THEN ch ELSE LowerLetters[k]

\* String.prototype.toLowerCase
toLowerCase(s) == [i \in 1..Len(s) |-> LowerOfIndex(s[i], UpperIndex(s[i]))]

\* String.prototype.includes
includes(s, sub) ==
    \E i \in 1..(Len(s) - Len(sub) + 1) : SubSeq(s, i, i + Len(sub) - 1) = sub

\* an error fn may throw: err.response.status (0: no response), err.code
\* ("": none) and err.message
Err(status, code, message) == [status |-> status, code |-> code, message |-> message]

MsgBoom     == <<"b", "o", "o", "m">>
MsgTimeout  == <<"t", "i", "m", "e", "o", "u", "t">>
MsgTimeoutU == <<"a", " ", "T", "i", "m", "e", "o", "u", "t">>
MsgTimedOut == <<"t", "i", "m", "e", "d", " ", "o", "u", "t">>

\* the Set `retryable` of isRetryableError
RetryableCodes ==
    {"ECONNRESET", "ETIMEDOUT", "EHOSTUNREACH", "ENETUNREACH", "EAI_AGAIN",
     "ECONNABORTED", "ENOTFOUND"}

\* the errors the calls of fn throw
RetryErrors ==
    {Err(st, "", MsgBoom) : st \in {400, 401, 404, 408, 425, 429, 499, 500, 503, 599, 600}}
    \cup {Err(0, code, MsgBoom) : code \in RetryableCodes \cup {"EPIPE", "ERR_BAD_REQUEST"}}
    \cup {Err(0, "", msg) : msg \in {MsgBoom, MsgTimeout, MsgTimeoutU, MsgTimedOut}}
    \cup {Err(400, "ECONNRESET", MsgBoom), Err(404, "", MsgTimeout)}

\* a variant of the classification without the test of the HTTP status
isRetryableErrorNoStatus(err) ==
    \/ err.code \in RetryableCodes
    \/ includes(toLowerCase(err.message), MsgTimeout)

\* isRetryableError(err)
isRetryableError(err) ==
    \/ err.status = 429 \/ err.status = 408 \/ err.status = 425
    \/ (err.status >= 500 /\ err.status <= 599)
    \/ err.code \in RetryableCodes
    \/ includes(toLowerCase(err.message), MsgTimeout)

\* a variant of the test of the catch block that allows one retry more
RethrowsAfter(attempt, retries, err) ==
    attempt > retries \/ ~isRetryableError(err)

\* if (attempt >= retries || !isRetryableError(err)) throw err
Rethrows(attempt, retries, err) ==
    attempt >= retries \/ ~isRetryableError(err)

\* the options of the calls: retries (waSendTemplate passes 3), minDelay, maxDelay, factor
MaxRetries == 3
minDelay == 300
maxDelay == 2000
factor == 2

Min(a, b) == IF a <= b THEN a ELSE b

\* retry(fn, { retries, minDelay, maxDelay }) is called: attempt = 0, delay = minDelay
RetryCalled(retries) ==
    /\ retryCall.pc = "idle"
    /\ retryCall' = [IdleRetry EXCEPT !.pc = "calling", !.retries = retries,
                                      !.delay = minDelay]
    /\ UNCHANGED <<authLimit, webhook, utilCall, mailerRps, now, emailWorker, segment, expectedBodyParams, campaign, crPc, runs, emailQueue,
                   waQueue, waCreated, sends>>

\* return await fn(): the call resolved; its value is numbered by the call
FnResolves ==
    /\ retryCall.pc = "calling"
    /\ retryCall' = [retryCall EXCEPT !.pc = "returned", !.calls = @ + 1,
                                      !.result = retryCall.calls + 1]
    /\ UNCHANGED <<authLimit, webhook, utilCall, mailerRps, now, emailWorker, segment, expectedBodyParams, campaign, crPc, runs, emailQueue,
                   waQueue, waCreated, sends>>

\* the call of fn threw err: the catch block rethrows it, or calls onRetry and
\* starts sleep(waitMs)
FnThrows(err) ==
    /\ retryCall.pc = "calling"
    /\ retryCall' =
          IF Rethrows(retryCall.attempt, retryCall.retries, err)
          THEN [retryCall EXCEPT !.pc = "thrown", !.calls = @ + 1, !.failures = @ + 1,
                                 !.lastErr = err, !.thrown = err]
          ELSE [retryCall EXCEPT !.pc = "sleeping", !.calls = @ + 1, !.failures = @ + 1,
                                 !.lastErr = err]
    /\ UNCHANGED <<authLimit, webhook, utilCall, mailerRps, now, emailWorker, segment, expectedBodyParams, campaign, crPc, runs, emailQueue,
                   waQueue, waCreated, sends>>

\* sleep(waitMs) is over: delay = Math.min(delay * factor, maxDelay); attempt += 1
SleepEnds ==
    /\ retryCall.pc = "sleeping"
    /\ retryCall' = [retryCall EXCEPT !.pc = "calling", !.attempt = @ + 1,
                                      !.delay = Min(@ * factor, maxDelay)]
    /\ UNCHANGED <<authLimit, webhook, utilCall, mailerRps, now, emailWorker, segment, expectedBodyParams, campaign, crPc, runs, emailQueue,
                   waQueue, waCreated, sends>>

\* the processes are restarted with another WHATSAPP_TEMPLATE_BODY_PARAMS_COUNT
\* while no request and no run is in progress; the jobs stay in Redis
Redeploy ==
    /\ crPc = "done"
    /\ ProcessUp
    /\ \A r \in RunIds : runs[r].pc \in {"idle", "done"}
    /\ expectedBodyParams' \in ExpectedBodyParamsChoices \ {expectedBodyParams}
    /\ UNCHANGED <<authLimit, webhook, utilCall, mailerRps, now, emailWorker, retryCall, segment, campaign, crPc, runs, emailQueue, waQueue, waCreated, sends>>

\* Every request handler and the dispatch runs they start, interleaved
(***************************************************************************)
(* Calls of the phone utilities (mailer/utils/phone.js)                    *)
(***************************************************************************)
\* a call about to be made with the argument raw
CallOf(raw) == [fn |-> "pending", raw |-> raw]

\* a call of normalizeWhatsAppPhone about to be made with a text for which
\* the library answers a valid number whose pn.number is number
CallWithNumber(number) == [fn |-> "pendingNumber", raw |-> number]

CallNormalizePhone ==
    /\ utilCall.fn = "pending"
    /\ utilCall' = [fn |-> "normalizePhone", raw |-> utilCall.raw,
                    ret |-> normalizePhone(utilCall.raw, defaultCountry)]
    /\ UNCHANGED <<authLimit, webhook, mailerRps, now, emailWorker, retryCall, segment, expectedBodyParams,
                   campaign, crPc, runs, emailQueue, waQueue, waCreated, sends>>

CallNormalizeWhatsAppPhone ==
    /\ utilCall.fn = "pending"
    /\ utilCall' = [fn |-> "normalizeWhatsAppPhone", raw |-> utilCall.raw,
                    ret |-> normalizeWhatsAppPhone(utilCall.raw, defaultCountry)]
    /\ UNCHANGED <<authLimit, webhook, mailerRps, now, emailWorker, retryCall, segment, expectedBodyParams,
                   campaign, crPc, runs, emailQueue, waQueue, waCreated, sends>>

\* normalizeWhatsAppPhone when the library holds the text valid: normalizePhone
\* returns pn.number without its '+', and the WhatsApp rules work on that
CallNormalizeValidNumber ==
    /\ utilCall.fn = "pendingNumber"
    /\ utilCall' = [fn |-> "normalizeValidNumber", raw |-> utilCall.raw,
                    normalized |-> ReplacePlus(utilCall.raw),
                    ret |-> normalizeWhatsAppDigits(ReplacePlus(utilCall.raw))]
    /\ UNCHANGED <<authLimit, webhook, mailerRps, now, emailWorker, retryCall, segment, expectedBodyParams,
                   campaign, crPc, runs, emailQueue, waQueue, waCreated, sends>>

CallIsValidE164 ==
    /\ utilCall.fn = "pending"
    /\ utilCall' = [fn |-> "isValidE164", raw |-> utilCall.raw,
                    ret |-> isValidE164(utilCall.raw)]
    /\ UNCHANGED <<authLimit, webhook, mailerRps, now, emailWorker, retryCall, segment, expectedBodyParams,
                   campaign, crPc, runs, emailQueue, waQueue, waCreated, sends>>

\* sendCampaignCore, step 4: the promo of one media URL of the segment
BuildPromo ==
    /\ utilCall.fn = "pendingUrl"
    /\ utilCall' = [fn |-> "promos", raw |-> utilCall.raw,
                    ret |-> transformCloudinaryUrlForEmail(utilCall.raw)]
    /\ UNCHANGED <<authLimit, webhook, mailerRps, now, emailWorker, retryCall, segment, expectedBodyParams,
                   campaign, crPc, runs, emailQueue, waQueue, waCreated, sends>>

\* runFordCampaign: the promo is transformed once more (sanitizedPromos)
SanitizePromo ==
    /\ utilCall.fn = "promos"
    /\ utilCall' = [fn |-> "sanitizedPromos", raw |-> utilCall.raw,
                    ret |-> transformCloudinaryUrlForEmail(utilCall.ret)]
    /\ UNCHANGED <<authLimit, webhook, mailerRps, now, emailWorker, retryCall, segment, expectedBodyParams,
                   campaign, crPc, runs, emailQueue, waQueue, waCreated, sends>>

(***************************************************************************)
(* The message webhook and ensureUnique (whatsapp/src/utils/idempotency.js) *)
(***************************************************************************)
\* const key = `wa:msg:${messageId}`
MsgKey(id) == <<"wa:msg", id>>

\* a variant of the Redis command without NX: SET key '1' EX ttl
SetEx(redis, key) == [res |-> "OK", redis |-> redis \cup {key}]

\* redis.set(key, '1', 'NX', 'EX', ttlSeconds): one atomic command
SetNxEx(redis, key) ==
    IF key \in redis THEN [res |-> "null", redis |-> redis]
    ELSE [res |-> "OK", redis |-> redis \cup {key}]

\* Meta delivers (or re-delivers) a text message to POST /webhook
Receive(d, id) ==
    /\ webhook.reqs[d].pc = "idle"
    /\ webhook' = [webhook EXCEPT !.reqs[d] = [pc |-> "ensure", id |-> id, isNew |-> FALSE]]
    /\ UNCHANGED <<authLimit, utilCall, mailerRps, now, emailWorker, retryCall, segment,
                   expectedBodyParams, campaign, crPc, runs, emailQueue, waQueue,
                   waCreated, sends>>

\* the delivery after `const isNew = await ensureUnique(key)` returned;
\* dropped is history: the deliveries answered as duplicates
AfterEnsure(w, d, set) ==
    [w EXCEPT !.redis = set.redis,
              !.reqs[d].isNew = (set.res = "OK"),
              !.reqs[d].pc = IF set.res = "OK" THEN "handle" ELSE "done",
              !.dropped[w.reqs[d].id] = IF set.res = "OK" THEN @ ELSE @ + 1]

\* ensureUnique(key): the command runs, or Redis fails and the handler
\* answers 500 from its catch
EnsureUnique(d) ==
    /\ webhook.reqs[d].pc = "ensure"
    /\ \/ webhook' = AfterEnsure(webhook, d,
                                 SetNxEx(webhook.redis, MsgKey(webhook.reqs[d].id)))
       \/ webhook' = [webhook EXCEPT !.reqs[d].pc = "done"]
    /\ UNCHANGED <<authLimit, utilCall, mailerRps, now, emailWorker, retryCall, segment,
                   expectedBodyParams, campaign, crPc, runs, emailQueue, waQueue,
                   waCreated, sends>>

\* await handleUserQuestion({ fromE164, userQuestion }), then the response:
\* the call returns, or it throws (ragSearch, chatQwen or waSend failed) and
\* the catch of the handler answers; the key is left as it is in both cases.
\* handled counts the calls, completed those that returned.
HandleUserQuestion(d) ==
    /\ webhook.reqs[d].pc = "handle"
    /\ \/ webhook' = [webhook EXCEPT !.reqs[d].pc = "done",
                                     !.handled[webhook.reqs[d].id] = @ + 1,
                                     !.completed[webhook.reqs[d].id] = @ + 1]
       \/ webhook' = [webhook EXCEPT !.reqs[d].pc = "done",
                                     !.handled[webhook.reqs[d].id] = @ + 1]
    /\ UNCHANGED <<authLimit, utilCall, mailerRps, now, emailWorker, retryCall, segment,
                   expectedBodyParams, campaign, crPc, runs, emailQueue, waQueue,
                   waCreated, sends>>

\* the TTL of a key runs out: Redis drops it
KeyExpires(id) ==
    /\ MsgKey(id) \in webhook.redis
    /\ webhook.expiries[id] < MaxExpiries
    /\ webhook' = [webhook EXCEPT !.redis = @ \ {MsgKey(id)}, !.expiries[id] = @ + 1]
    /\ UNCHANGED <<authLimit, utilCall, mailerRps, now, emailWorker, retryCall, segment,
                   expectedBodyParams, campaign, crPc, runs, emailQueue, waQueue,
                   waCreated, sends>>

(***************************************************************************)
(* Contact loaders (mailer/campaign/loaders/array.js and xlsx.js)          *)
(***************************************************************************)
\* the rows handed to a loader: up to three rows, each with an email cell
RowEmails == {None, EmailA, EmailAPad, EmailB, EmailBad}
RowInputs ==
    { <<[email |-> a]>> : a \in RowEmails }
      \cup { <<[email |-> a], [email |-> b]>> : a \in RowEmails, b \in RowEmails }
      \cup { <<[email |-> a], [email |-> b], [email |-> c]>> :
                a \in RowEmails, b \in RowEmails, c \in {EmailA, EmailBad} }

\* contactsFromArray(base): the emails it yields, in order
RECURSIVE contactsFromArray(_)
contactsFromArray(base) ==
    IF base = <<>> THEN <<>>
    ELSE IF Trim(Head(base).email) = <<>> THEN contactsFromArray(Tail(base))
    ELSE <<Trim(Head(base).email)>> \o contactsFromArray(Tail(base))

\* the loop of contactsFromXlsx over the rows left, with the Set seen
RECURSIVE XlsxFrom(_, _)
XlsxFrom(rows, seen) ==
    IF rows = <<>> THEN <<>>
    ELSE IF \/ Trim(Head(rows).email) = <<>>
            \/ ~EMAIL_RE_test(Trim(Head(rows).email))
            \/ Trim(Head(rows).email) \in seen
         THEN XlsxFrom(Tail(rows), seen)
         ELSE <<Trim(Head(rows).email)>>
                  \o XlsxFrom(Tail(rows), seen \cup {Trim(Head(rows).email)})

\* contactsFromXlsx(filePath), from the rows of the first sheet
contactsFromXlsx(rows) == XlsxFrom(rows, {})

CallContactsFromArray ==
    /\ utilCall.fn = "pendingRows"
    /\ utilCall' = [fn |-> "contactsFromArray", raw |-> utilCall.raw,
                    ret |-> contactsFromArray(utilCall.raw)]
    /\ UNCHANGED <<authLimit, webhook, mailerRps, now, emailWorker, retryCall, segment, expectedBodyParams,
                   campaign, crPc, runs, emailQueue, waQueue, waCreated, sends>>

CallContactsFromXlsx ==
    /\ utilCall.fn = "pendingRows"
    /\ utilCall' = [fn |-> "contactsFromXlsx", raw |-> utilCall.raw,
                    ret |-> contactsFromXlsx(utilCall.raw)]
    /\ UNCHANGED <<authLimit, webhook, mailerRps, now, emailWorker, retryCall, segment, expectedBodyParams,
                   campaign, crPc, runs, emailQueue, waQueue, waCreated, sends>>

(***************************************************************************)
(* The worker of the queue 'emails' (mailer/providers/resend.js)           *)
(***************************************************************************)
\* limiter: { duration: 1000 } of the WhatsApp worker: the one-second window
OneSecond == 1000

\* const attempts = options.attempts ?? 3 of runFordCampaign
emailAttempts == 3

\* const backoffMs = options.backoffMs ?? 15_000 of runFordCampaign
backoffMs == 15000

RECURSIVE Pow2(_)
Pow2(n) == IF n = 0 THEN 1 ELSE 2 * Pow2(n - 1)

\* history: the worker starts one more job at time t
StartedAt(w, t) ==
    IF w.started = 0 \/ t - w.windowStart >= OneSecond
    THEN [w EXCEPT !.windowStart = t, !.started = 1]
    ELSE [w EXCEPT !.started = @ + 1]

\* the worker takes a waiting job: the options of new Worker are
\* { connection } alone, so the concurrency is BullMQ's default of one job
\* and no limiter holds a job back
EmailWorkerTake(j) ==
    /\ j \in emailQueue
    /\ j.notBefore <= now
    /\ emailWorker.active = {}
    /\ emailQueue' = emailQueue \ {j}
    /\ emailWorker' = [StartedAt(emailWorker, now) EXCEPT !.active = {j}]
    /\ UNCHANGED <<authLimit, webhook, utilCall, mailerRps, now, retryCall, segment, expectedBodyParams, campaign, crPc,
                   runs, waQueue, waCreated, sends>>

\* await sendReminder(job.data) resolves: the job is completed
EmailWorkerSucceed ==
    /\ emailWorker.active # {}
    /\ emailWorker' = [emailWorker EXCEPT !.active = {}]
    /\ UNCHANGED <<authLimit, webhook, utilCall, mailerRps, now, retryCall, segment, expectedBodyParams, campaign, crPc,
                   runs, emailQueue, waQueue, waCreated, sends>>

\* the job after the processor threw: delayed by the exponential backoff
\* while attempts are left, failed for good otherwise
EmailJobAfterFailure(queue, j, t) ==
    IF j.attemptsMade + 1 < emailAttempts
    THEN queue \cup {[j EXCEPT !.attemptsMade = @ + 1,
                               !.notBefore = t + backoffMs * Pow2(j.attemptsMade)]}
    ELSE queue

\* sendReminder throws and the processor rethrows
EmailWorkerFail ==
    /\ emailWorker.active # {}
    /\ \E j \in emailWorker.active :
          emailQueue' = EmailJobAfterFailure(emailQueue, j, now)
    /\ emailWorker' = [emailWorker EXCEPT !.active = {}]
    /\ UNCHANGED <<authLimit, webhook, utilCall, mailerRps, now, retryCall, segment, expectedBodyParams, campaign, crPc,
                   runs, waQueue, waCreated, sends>>

\* the steps by which time passes while nothing else happens
TickSteps == {1000}

\* time passes
Tick(d) ==
    /\ now < MaxTime
    /\ now' = now + d
    /\ UNCHANGED <<authLimit, webhook, utilCall, mailerRps, emailWorker, retryCall, segment, expectedBodyParams, campaign,
                   crPc, runs, emailQueue, waQueue, waCreated, sends>>

Next ==
    \/ \E canales \in ChannelChoices : CreateValidate(canales)
    \/ CreateMarkSending
    \/ \E r \in RunIds : SendCampaignFind(r)
    \/ \E r \in RunIds : SendCampaignSave(r)
    \/ \E r \in RunIds : Load(r)
    \/ \E r \in RunIds : Fetch(r)
    \/ \E r \in RunIds : EmailContact(r)
    \/ \E r \in RunIds : EnqueueEmailSettles(r)
    \/ \E r \in RunIds : EmailSleepEnds(r)
    \/ \E r \in RunIds : WhatsAppContact(r)
    \/ \E r \in RunIds : SaveCounters(r)
    \/ \E r \in RunIds : OnResolved(r)
    \/ \E r \in RunIds : OnRejected(r)

Spec == Init /\ [][Next]_vars

\* The same, when every request and every run goes on: each awaited call
\* returns or fails, so a step that is possible is eventually taken
SpecLive == Init /\ [][Next]_vars /\ WF_vars(Next)

\* The WhatsApp channel end to end: the dispatch runs of a WhatsApp campaign
\* and the workers of the queue, interleaved
NextQueue ==
    \/ CreateValidate({"whatsapp"})
    \/ CreateMarkSending
    \/ \E r \in RunIds : SendCampaignFind(r)
    \/ \E r \in RunIds : SendCampaignSave(r)
    \/ \E r \in RunIds : Load(r)
    \/ \E r \in RunIds : Fetch(r)
    \/ \E r \in RunIds : WhatsAppContact(r)
    \/ \E r \in RunIds : SaveCounters(r)
    \/ \E r \in RunIds : OnResolved(r)
    \/ \E r \in RunIds : OnRejected(r)
    \/ \E j \in waQueue : WorkerTake(j)
    \/ \E j \in waQueue : WorkerSucceed(j)
    \/ \E j \in waQueue : WorkerFail(j)

SpecQueue == Init /\ [][NextQueue]_vars

\* The WhatsApp channel across deployments: as SpecQueue, and the expected
\* parameter count may be reconfigured between runs
NextWorker ==
    \/ NextQueue
    \/ Redeploy

SpecWorker == Init /\ [][NextWorker]_vars

\* Overlapping dispatch runs of a WhatsApp campaign over a segment of two
\* contacts: the run createCampaignFromRag starts and a re-send
InitOverlap ==
    /\ segment \in PairSegments
    /\ expectedBodyParams = 2
    /\ campaign = NoCampaign
    /\ crPc = "start"
    /\ runs = [r \in RunIds |-> IdleRun]
    /\ emailQueue = {}
    /\ waQueue = {}
    /\ waCreated = {}
    /\ sends = 0
    /\ retryCall = IdleRetry
    /\ mailerRps = 5
    /\ now = 0
    /\ emailWorker = IdleWorker
    /\ webhook = NoWebhook
    /\ authLimit = NoAuthLimit
    /\ utilCall = NoCall

NextOverlap ==
    \/ CreateValidate({"whatsapp"})
    \/ CreateMarkSending
    \/ \E r \in RunIds : SendCampaignFind(r)
    \/ \E r \in RunIds : SendCampaignSave(r)
    \/ \E r \in RunIds : Load(r)
    \/ \E r \in RunIds : Fetch(r)
    \/ \E r \in RunIds : WhatsAppContact(r)
    \/ \E r \in RunIds : SaveCounters(r)
    \/ \E r \in RunIds : OnResolved(r)
    \/ \E r \in RunIds : OnRejected(r)

SpecOverlap == InitOverlap /\ [][NextOverlap]_vars

\* One call of retry, for every number of retries and every sequence of
\* outcomes of fn; every call of fn ends and every sleep ends
NextRetry ==
    \/ \E retries \in 0..MaxRetries : RetryCalled(retries)
    \/ FnResolves
    \/ \E err \in RetryErrors : FnThrows(err)
    \/ SleepEnds

SpecRetry == Init /\ [][NextRetry]_vars /\ WF_vars(NextRetry)

\* One call of a phone utility, for every phone text and candidate, beside a
\* WhatsApp campaign whose segment is one contact with that text as its phone
InitPhone ==
    /\ utilCall \in {CallOf(raw) : raw \in PhoneInputs \cup PhoneInputsAbroad \cup E164Inputs}
                  \cup {CallWithNumber(number) : number \in LibNumbers}
    /\ segment = <<Contact(None, utilCall.raw, None, <<"A">>)>>
    /\ expectedBodyParams = 2
    /\ campaign = NoCampaign
    /\ crPc = "start"
    /\ runs = [r \in RunIds |-> IdleRun]
    /\ emailQueue = {}
    /\ waQueue = {}
    /\ waCreated = {}
    /\ sends = 0
    /\ retryCall = IdleRetry
    /\ mailerRps = 5
    /\ now = 0
    /\ emailWorker = IdleWorker
    /\ webhook = NoWebhook
    /\ authLimit = NoAuthLimit

NextPhone ==
    \/ CallNormalizePhone
    \/ CallNormalizeWhatsAppPhone
    \/ CallNormalizeValidNumber
    \/ CallIsValidE164
    \/ CreateValidate({"whatsapp"})
    \/ CreateMarkSending
    \/ Load(1)
    \/ Fetch(1)
    \/ WhatsAppContact(1)
    \/ SaveCounters(1)
    \/ OnResolved(1)
    \/ OnRejected(1)

SpecPhone == InitPhone /\ [][NextPhone]_vars

\* The promo list of a run, for every media URL of the segment
InitPromo ==
    /\ segment \in SmallSegments
    /\ expectedBodyParams = 2
    /\ campaign = NoCampaign
    /\ crPc = "start"
    /\ runs = [r \in RunIds |-> IdleRun]
    /\ emailQueue = {}
    /\ waQueue = {}
    /\ waCreated = {}
    /\ sends = 0
    /\ retryCall = IdleRetry
    /\ mailerRps = 5
    /\ now = 0
    /\ emailWorker = IdleWorker
    /\ webhook = NoWebhook
    /\ authLimit = NoAuthLimit
    /\ utilCall \in {[fn |-> "pendingUrl", raw |-> url] : url \in UrlInputs}

NextPromo ==
    \/ BuildPromo
    \/ SanitizePromo

SpecPromo == InitPromo /\ [][NextPromo]_vars

\* One call of a contact loader, for every list of rows
InitLoader ==
    /\ segment \in SmallSegments
    /\ expectedBodyParams = 2
    /\ campaign = NoCampaign
    /\ crPc = "start"
    /\ runs = [r \in RunIds |-> IdleRun]
    /\ emailQueue = {}
    /\ waQueue = {}
    /\ waCreated = {}
    /\ sends = 0
    /\ retryCall = IdleRetry
    /\ mailerRps = 5
    /\ now = 0
    /\ emailWorker = IdleWorker
    /\ webhook = NoWebhook
    /\ authLimit = NoAuthLimit
    /\ utilCall \in {[fn |-> "pendingRows", raw |-> rows] : rows \in RowInputs}

NextLoader ==
    \/ CallContactsFromArray
    \/ CallContactsFromXlsx

SpecLoader == InitLoader /\ [][NextLoader]_vars

\* Concurrent deliveries of text messages to the webhook
NextWebhook ==
    \/ \E d \in 1..NumDeliveries, id \in MessageIds : Receive(d, id)
    \/ \E d \in 1..NumDeliveries : EnsureUnique(d)
    \/ \E d \in 1..NumDeliveries : HandleUserQuestion(d)
    \/ \E id \in MessageIds : KeyExpires(id)

SpecWebhook == Init /\ [][NextWebhook]_vars

\* The email channel end to end: one dispatch run of an email campaign over
\* a segment of distinct addresses, the worker of the queue, and the clock
InitRate ==
    /\ segment \in MailSegments
    /\ expectedBodyParams = 2
    /\ campaign = NoCampaign
    /\ crPc = "start"
    /\ runs = [r \in RunIds |-> IdleRun]
    /\ emailQueue = {}
    /\ waQueue = {}
    /\ waCreated = {}
    /\ sends = 0
    /\ retryCall = IdleRetry
    /\ mailerRps \in RpsChoices
    /\ now = 0
    /\ emailWorker = IdleWorker
    /\ webhook = NoWebhook
    /\ authLimit = NoAuthLimit
    /\ utilCall = NoCall

NextRate ==
    \/ CreateValidate({"email"})
    \/ CreateMarkSending
    \/ Load(1)
    \/ Fetch(1)
    \/ EmailContact(1)
    \/ EnqueueEmailSettles(1)
    \/ EmailSleepEnds(1)
    \/ OnResolved(1)
    \/ OnRejected(1)
    \/ \E j \in emailQueue : EmailWorkerTake(j)
    \/ EmailWorkerSucceed
    \/ EmailWorkerFail
    \/ \E d \in TickSteps : Tick(d)

SpecRate == InitRate /\ [][NextRate]_vars

\* One dispatch run, started by createCampaignFromRag, over every segment,
\* channel set and expected parameter count
InitRun ==
    /\ segment \in Segments
    /\ expectedBodyParams \in ExpectedBodyParamsChoices
    /\ campaign = NoCampaign
    /\ crPc = "start"
    /\ runs = [r \in RunIds |-> IdleRun]
    /\ emailQueue = {}
    /\ waQueue = {}
    /\ waCreated = {}
    /\ sends = 0
    /\ retryCall = IdleRetry
    /\ mailerRps = 5
    /\ now = 0
    /\ emailWorker = IdleWorker
    /\ webhook = NoWebhook
    /\ authLimit = NoAuthLimit
    /\ utilCall = NoCall

NextRun ==
    \/ \E canales \in ChannelChoices, jwtToken \in JwtChoices :
          CreateValidateWith(canales, jwtToken)
    \/ CreateMarkSending
    \/ Load(1)
    \/ Fetch(1)
    \/ EmailContact(1)
    \/ EnqueueEmailSettles(1)
    \/ EmailSleepEnds(1)
    \/ WhatsAppContact(1)
    \/ SaveCounters(1)
    \/ OnResolved(1)
    \/ OnRejected(1)

SpecRun == InitRun /\ [][NextRun]_vars

(***************************************************************************)
(* Properties                                                              *)
(***************************************************************************)

\* C1: for a fixed (campaignId, recipient, templateName), the submissions of
\* the whole execution create at most one job in the WhatsApp queue.
C1_AtMostOneJobEver ==
    \A e1, e2 \in waCreated : e1[1] = e2[1] => e1 = e2

\* C6: at no time are there two jobs with the same (campaignId, recipient,
\* templateName) in the WhatsApp queue, waiting or being processed.
C6_NoTwoJobsSameKey ==
    \A j1, j2 \in waQueue : j1.jid = j2.jid => j1 = j2

\* a run submitted a key whose job, created by another run, is being processed
C6_Witness ==
    \E r \in RunIds : \E j \in waQueue :
        /\ j.st = "active"
        /\ runs[r].waEncolados = 1
        /\ runs[r].waAttempts = <<j.data.to>>
        /\ j.by[1] # runs[r].n

\* C7: a job whose transport call failed with a non-transient error is not
\* attempted again: it stays failed.
C7_PermanentFailureStaysFailed ==
    \A j \in waQueue : j.lastErr = "permanent" => j.st = "failed"

\* C4: the only changes of a campaign's state are CREADA -> ENVIANDO,
\* ENVIANDO -> COMPLETADA, ENVIANDO -> FALLIDA, and COMPLETADA -> ENVIANDO or
\* FALLIDA -> ENVIANDO; never COMPLETADA <-> FALLIDA directly.
AllowedTransitions ==
    { <<"CREADA", "ENVIANDO">>, <<"ENVIANDO", "COMPLETADA">>,
      <<"ENVIANDO", "FALLIDA">>, <<"COMPLETADA", "ENVIANDO">>,
      <<"FALLIDA", "ENVIANDO">> }

C4_StateMachine ==
    [][campaign'.estado # campaign.estado
          => <<campaign.estado, campaign'.estado>> \in AllowedTransitions]_vars

\* C5: when the callbacks of a run that resolved have finished, the campaign
\* is COMPLETADA with lastError cleared: a run that resolved never leaves its
\* campaign FALLIDA.
C5_ResolvedRunCompletes ==
    [][\A r \in RunIds :
          (runs[r].outcome = "resolved" /\ runs[r].pc # "done" /\ runs'[r].pc = "done")
              => (campaign'.estado = "COMPLETADA" /\ campaign'.lastError = NoError)]_vars

\* C9: a dispatch run whose campaign.save() of the counters threw still
\* resolves, and its campaign is not FALLIDA.
C9_SaveFailureDoesNotReject ==
    \A r \in RunIds :
        runs[r].saveFailed => (runs[r].outcome = "resolved" /\ campaign.estado # "FALLIDA")

\* the jobs run number n created in the WhatsApp queue
CreatedBy(n) == {e \in waCreated : e[2][1] = n}

\* C8: when a run has finished, the persisted queued counter of each channel
\* has grown by the number of jobs the run enqueued on it, and the skipped
\* counter by the number of contacts the run skipped (invalid, duplicate or
\* parameter mismatch).  The counters start at 0 and one run is made.
C8_CountersMatchTheRun ==
    LET run == runs[1] IN
    (run.pc = "done" /\ run.outcome = "resolved") =>
        /\ campaign.metrics.email.encolados = run.emEncolados
        /\ campaign.metrics.whatsapp.encolados = Cardinality(CreatedBy(run.n))
        /\ campaign.metrics.whatsapp.omitidos =
              run.waSkipped + run.whatsapp.invalidos + run.whatsapp.duplicados

\* the canonical form of an email address: trimmed and lowercased
LowerCh(ch) == IF ch = "A" THEN "a" ELSE IF ch = "B" THEN "b" ELSE ch
Canonical(e) == [i \in 1..Len(Trim(e)) |-> LowerCh(Trim(e)[i])]

\* C2: in one dispatch run no two email jobs go to the same canonical address.
C2_OneJobPerCanonicalEmail ==
    \A j1, j2 \in emailQueue :
        (j1.by[1] = j2.by[1] /\ Canonical(j1.data.to) = Canonical(j2.data.to))
            => j1 = j2

\* the email engine of the run is in its loop (at a contact, waiting for the
\* queue, or asleep after a contact)
InEmailLoop(run) == run.pc \in {"email", "emailAdd", "emailSleep"}

\* C3: a contact whose render or enqueue failed does not stop its engine:
\* every contact after it is still processed, counted as enqueued, failed or
\* skipped, and the engine's run resolves.
C3_ContactFailureDoesNotReject ==
    \A r \in RunIds :
        LET run == runs[r] IN
        /\ (run.emFailedAt # 0 /\ run.pc \in {"email", "emailAdd"}) =>
                (run.i = run.emProcessed + 1 /\ run.i <= Len(run.email.contacts))
        /\ (run.emFailedAt # 0 /\ run.pc = "emailSleep") =>
                (run.i = run.emProcessed /\ run.i <= Len(run.email.contacts))
        /\ (run.emFailedAt # 0 /\ ~InEmailLoop(run)) =>
                /\ run.emProcessed = Len(run.email.contacts)
                /\ run.emEncolados + run.emErrores = Len(run.email.contacts)
        /\ (run.waFailedAt # 0 /\ run.pc = "wa") =>
                (run.i = run.waProcessed + 1 /\ run.i <= Len(run.whatsapp.contacts))
        /\ (run.waFailedAt # 0 /\ run.pc # "wa") =>
                /\ run.waProcessed = Len(run.whatsapp.contacts)
                /\ run.waEncolados + run.waErrores + run.waSkipped
                      = Len(run.whatsapp.contacts)
                /\ run.outcome # "rejected"

\* the number of non-null contacts of a segment
NonNull(clientes) == Cardinality({i \in 1..Len(clientes) : ~clientes[i].isNull})

\* no element of a sequence occurs twice
Distinct(s) == \A i, j \in 1..Len(s) : i # j => s[i] # s[j]

\* the addresses a pass accepted
AcceptedEmails(run) == {run.email.contacts[i].email : i \in 1..Len(run.email.contacts)}
AcceptedPhones(run) ==
    {run.whatsapp.contacts[i].telefonoE164 : i \in 1..Len(run.whatsapp.contacts)}

\* both engines of a classified run are through their contacts
EnginesDone(run) == run.classified /\ run.pc \notin {"email", "emailAdd", "emailSleep", "wa"}

\* C10 as stated: once the engines of a run are through, exactly one enqueue
\* was attempted per accepted contact of each channel.
C10_OneAttemptPerAccepted ==
    \A r \in RunIds :
        EnginesDone(runs[r]) =>
            /\ Len(runs[r].emAttempts) = Len(runs[r].email.contacts)
            /\ Len(runs[r].waAttempts) = Len(runs[r].whatsapp.contacts)

\* C10: in a run, for each active channel accepted + invalid + duplicate is
\* the number of non-null contacts; at most one enqueue is attempted per
\* accepted contact, and exactly one unless its render failed (email) or its
\* body parameters are not as many as expected (WhatsApp); every attempt and
\* every job is for an accepted contact, none for an invalid or a duplicate one.
C10_ClassifiedOnceAttemptedAtMostOnce ==
    \A r \in RunIds :
        LET run == runs[r] IN
        run.classified =>
            /\ "email" \in run.canales =>
                  Len(run.email.contacts) + run.email.invalidos + run.email.duplicados
                      = NonNull(segment)
            /\ "whatsapp" \in run.canales =>
                  Len(run.whatsapp.contacts) + run.whatsapp.invalidos
                      + run.whatsapp.duplicados = NonNull(segment)
            /\ Distinct(run.emAttempts)
            /\ Distinct(run.waAttempts)
            /\ \A i \in 1..Len(run.emAttempts) : run.emAttempts[i] \in AcceptedEmails(run)
            /\ \A i \in 1..Len(run.waAttempts) : run.waAttempts[i] \in AcceptedPhones(run)
            /\ \A j \in emailQueue : j.by[1] = run.n => j.data.to \in AcceptedEmails(run)
            /\ \A j \in waQueue : j.by[1] = run.n => j.data.to \in AcceptedPhones(run)
            /\ Cardinality({j \in emailQueue : j.by[1] = run.n}) <= Len(run.email.contacts)
            /\ Cardinality(CreatedBy(run.n)) <= Len(run.whatsapp.contacts)
            /\ EnginesDone(run) =>
                  /\ Len(run.emAttempts) = Len(run.email.contacts) - run.emRenderFailed
                  /\ Len(run.waAttempts) = Len(run.whatsapp.contacts) - run.waSkipped

\* a run over a segment with a duplicate and an invalid contact is through
\* both engines; one accepted email contact failed to render, the other
\* accepted contacts were enqueued
C10_Witness ==
    \E r \in RunIds :
        /\ EnginesDone(runs[r])
        /\ runs[r].email.duplicados >= 1
        /\ runs[r].whatsapp.invalidos >= 1
        /\ runs[r].emRenderFailed = 1
        /\ Len(runs[r].emAttempts) >= 1
        /\ Len(runs[r].waAttempts) >= 1

\* what each branch of the pass tests of one contact
ValidEmail(c) == EMAIL_RE_test(Trim(c.email))
ValidPhone(c) == ContactPhone(c) # <<>> /\ isValidE164(ContactPhone(c))

\* the contacts of a segment a channel finds invalid
InvalidEmails(clientes) ==
    {k \in 1..Len(clientes) : ~clientes[k].isNull /\ ~ValidEmail(clientes[k])}
InvalidPhones(clientes) ==
    {k \in 1..Len(clientes) : ~clientes[k].isNull /\ ~ValidPhone(clientes[k])}

\* C11: in a run of a campaign with both channels each channel decides on its
\* own: a contact with a valid email and an unparseable phone is in the email
\* batch and gets an email job (when no email contact of the run failed), is
\* counted WhatsApp-invalid and gets no WhatsApp job; a contact with a valid
\* phone and a malformed email is in the WhatsApp batch and gets a WhatsApp
\* job (when no WhatsApp contact failed or was skipped), is counted
\* email-invalid and gets no email job.
C11_ChannelsDecideIndependently ==
    \A r \in RunIds :
        LET run == runs[r] IN
        (run.classified /\ run.canales = {"email", "whatsapp"}) =>
            /\ run.email.invalidos = Cardinality(InvalidEmails(segment))
            /\ run.whatsapp.invalidos = Cardinality(InvalidPhones(segment))
            /\ Cardinality(CreatedBy(run.n)) <= Len(segment) - run.whatsapp.invalidos
            /\ Cardinality({j \in emailQueue : j.by[1] = run.n})
                  <= Len(segment) - run.email.invalidos
            /\ \A k \in 1..Len(segment) :
                  LET c == segment[k] IN
                  /\ (~c.isNull /\ ValidEmail(c) /\ ~ValidPhone(c)) =>
                        /\ Trim(c.email) \in AcceptedEmails(run)
                        /\ (~InEmailLoop(run) /\ run.emErrores = 0) =>
                              \E j \in emailQueue :
                                  j.by[1] = run.n /\ j.data.to = Trim(c.email)
                  /\ (~c.isNull /\ ValidPhone(c) /\ ~ValidEmail(c)) =>
                        /\ ContactPhone(c) \in AcceptedPhones(run)
                        /\ (run.pc \notin {"email", "emailAdd", "emailSleep", "wa"} /\ run.waErrores = 0
                                /\ run.waSkipped = 0) =>
                              \E j \in waQueue :
                                  j.by[1] = run.n /\ j.data.to = ContactPhone(c)
                        /\ \A j \in emailQueue :
                              j.by[1] = run.n => j.data.to # Trim(c.email)

\* a run over both channels is through: the segment holds a contact with a
\* valid email and an unparseable phone and one with a valid phone and a
\* malformed email, and each got the job of its valid channel only
C11_Witness ==
    \E r \in RunIds :
        /\ runs[r].pc = "done"
        /\ runs[r].canales = {"email", "whatsapp"}
        /\ \E k \in 1..Len(segment) :
              /\ ValidEmail(segment[k]) /\ ~ValidPhone(segment[k])
              /\ \E j \in emailQueue : j.data.to = Trim(segment[k].email)
        /\ \E k \in 1..Len(segment) :
              /\ ValidPhone(segment[k]) /\ ~ValidEmail(segment[k])
              /\ \E j \in waQueue : j.data.to = ContactPhone(segment[k])
        /\ Cardinality(emailQueue) = 1
        /\ Cardinality(waQueue) = 1

\* the run rejected at CampaignModel.findById or at the segment retrieval
RejectedEarly(run) == run.outcome = "rejected" /\ run.err \in {"findById", "segment"}

\* C12: a run that rejects because the campaign is not loaded or the segment
\* retrieval fails has enqueued nothing, no email and no WhatsApp job, and
\* once its rejection handler has written, the campaign is FALLIDA with the
\* error's message in lastError.
C12_EarlyFailureEnqueuesNothing ==
    \A r \in RunIds :
        LET run == runs[r] IN
        RejectedEarly(run) =>
            /\ run.emAttempts = <<>> /\ run.waAttempts = <<>>
            /\ \A j \in emailQueue : j.by[1] # run.n
            /\ \A j \in waQueue : j.by[1] # run.n
            /\ CreatedBy(run.n) = {}
            /\ (run.pc = "done" /\ ~run.updateFailed) =>
                  (campaign.estado = "FALLIDA" /\ campaign.lastError = run.err)

\* the segment retrieval of the run failed, the queues are empty and the
\* campaign is FALLIDA with the error of the retrieval
C12_Witness ==
    /\ runs[1].pc = "done"
    /\ runs[1].err = "segment"
    /\ runs[1].outcome = "rejected"
    /\ campaign.estado = "FALLIDA"
    /\ campaign.lastError = "segment"
    /\ emailQueue = {} /\ waQueue = {}

\* C13: no HTTP call of a template send is made with a number of body
\* parameters other than the expected count configured at the time: an
\* active job (its call was made) has as many bodyParams as were expected.
C13_NoMismatchReachesTransport ==
    \A j \in waQueue :
        j.st = "active" => Len(j.data.bodyParams) = j.calledUnder

\* the counters of the metrics of a campaign, as a tuple
Counters(m) ==
    <<m.whatsapp.encolados, m.whatsapp.omitidos, m.whatsapp.enviados,
      m.whatsapp.fallidos, m.email.encolados, m.email.enviados, m.email.fallidos>>

\* C14: no step of a dispatch run decreases a persisted counter of the campaign.
C14_CountersNeverDecrease ==
    [][\A k \in 1..7 :
          Counters(campaign'.metrics)[k] >= Counters(campaign.metrics)[k]]_vars

\* C15: when the two overlapping runs have finished and both saved their
\* counters, the persisted counters are the sums of the counts of both runs
\* (the counters were 0 before them).
C15_NoLostUpdate ==
    (\A r \in RunIds : runs[r].pc = "done" /\ runs[r].outcome = "resolved"
                          /\ runs[r].classified) =>
        /\ campaign.metrics.whatsapp.encolados
              = runs[1].waEncolados + runs[2].waEncolados
        /\ campaign.metrics.whatsapp.omitidos
              = runs[1].waSkipped + runs[2].waSkipped

\* the pass of the run accepted no contact on any channel
NothingAccepted(run) ==
    run.classified /\ Len(run.email.contacts) = 0 /\ Len(run.whatsapp.contacts) = 0

\* C16: a run in which no channel accepted a contact returns without a job
\* in either queue and without a change of the counters (they were 0), it
\* resolves, and once the callbacks of the caller have written, the
\* campaign is COMPLETADA.
C16_EarlyReturnCompletes ==
    \A r \in RunIds :
        LET run == runs[r] IN
        NothingAccepted(run) =>
            /\ \A j \in emailQueue : j.by[1] # run.n
            /\ CreatedBy(run.n) = {}
            /\ campaign.metrics = ZeroMetrics
            /\ run.outcome = "resolved"
            /\ (run.pc = "done" /\ ~run.updateFailed) => campaign.estado = "COMPLETADA"

\* C17: a run of a campaign without a stored jwtToken makes the segment call
\* without an Authorization header and goes on with the contacts returned;
\* it rejects only for what makes any run reject (the campaign is not
\* loaded, the segment call fails, the counters are not saved), never for
\* the missing token.
C17_MissingTokenDoesNotReject ==
    \A r \in RunIds :
        LET run == runs[r] IN
        (campaign.exists /\ campaign.jwtToken = NoToken /\ run.pc \notin {"idle", "load"}) =>
            /\ run.outcome = "rejected" => run.err \in {"findById", "segment", "save"}
            /\ run.err # "findById" => run.ragHeaders = {}
            /\ run.classified =>
                  /\ run.email = ClassifyEmail(segment, run.canales)
                  /\ run.whatsapp = ClassifyWhatsApp(segment, run.canales)

\* a run of a campaign without a token got the segment, enqueued an email
\* job for a contact of it and resolved
C17_Witness ==
    /\ campaign.jwtToken = NoToken
    /\ runs[1].pc = "done"
    /\ runs[1].outcome = "resolved"
    /\ runs[1].ragHeaders = {}
    /\ runs[1].classified
    /\ runs[1].emEncolados >= 1
    /\ campaign.estado = "COMPLETADA"

\* the call of retry has returned or thrown
RetryEnded == retryCall.pc \in {"returned", "thrown"}

\* what holds of a call of retry at every moment: fn was called at most
\* retries + 1 times; a returned call returns the value of its last call of
\* fn, the first that succeeded; a call that threw throws the last error
RetryBounded ==
    /\ retryCall.calls <= retryCall.retries + 1
    /\ retryCall.pc = "returned" =>
          /\ retryCall.result = retryCall.calls
          /\ retryCall.failures = retryCall.calls - 1
    /\ retryCall.pc = "thrown" =>
          /\ retryCall.thrown = retryCall.lastErr
          /\ retryCall.failures = retryCall.calls

\* C18: retry(fn, {retries: n}) ends when every call of fn ends; it calls fn
\* at most n + 1 times, returns the result of the first call that succeeded
\* without calling fn again, and otherwise rethrows the last error.
C18_RetryTerminates ==
    /\ [](RetryBounded)
    /\ [][retryCall.pc \in {"returned", "thrown"} => retryCall' = retryCall]_vars
    /\ (retryCall.pc = "calling") ~> RetryEnded

\* after three transient failures the fourth call of fn succeeded
C18_Witness ==
    /\ retryCall.pc = "returned"
    /\ retryCall.retries = 3
    /\ retryCall.calls = 4
    /\ retryCall.result = 4

\* the errors the specification calls transient: HTTP 429, 408, 425 and 5xx,
\* the listed network codes, a message containing "timeout" in any case
Transient(err) ==
    \/ err.status \in {408, 425, 429} \cup (500..599)
    \/ err.code \in {"ECONNRESET", "ETIMEDOUT", "EHOSTUNREACH", "ENETUNREACH",
                     "EAI_AGAIN", "ECONNABORTED", "ENOTFOUND"}
    \/ \E i \in 1..Len(err.message) - 6 :
          toLowerCase(SubSeq(err.message, i, i + 6)) = MsgTimeout

\* C19: after a failure retry calls fn again (it sleeps, then calls) if and
\* only if the error is transient and fewer than `retries` retries were made;
\* any other error is thrown right after the call that raised it.
C19_RetriesOnlyTransient ==
    /\ retryCall.pc = "sleeping" =>
          (Transient(retryCall.lastErr) /\ retryCall.attempt < retryCall.retries)
    /\ retryCall.pc = "thrown" =>
          /\ ~Transient(retryCall.lastErr) \/ retryCall.attempt >= retryCall.retries
          /\ retryCall.thrown = retryCall.lastErr
    /\ (retryCall.pc = "thrown" /\ ~Transient(retryCall.lastErr)) =>
          retryCall.calls = retryCall.attempt + 1
    /\ retryCall.attempt <= retryCall.failures

\* a permanent error (HTTP 404) was thrown after one transient failure had
\* been retried, with retries left
C19_Witness ==
    /\ retryCall.pc = "thrown"
    /\ retryCall.thrown.status = 404
    /\ retryCall.attempt = 1
    /\ retryCall.calls = 2
    /\ retryCall.retries = 3

\* C20: each delivery worker processes at most one job at a time and starts
\* at most the configured maximum number of jobs in any one-second window.
\* Stated for the worker of the email queue: it holds at most one active job,
\* and the jobs it started in the current one-second window number at most
\* MAILER_RATE_LIMIT_MAX_RPS.
C20_EmailWorkerRateLimited ==
    /\ Cardinality(emailWorker.active) <= 1
    /\ emailWorker.started <= mailerRps

\* the jobs of the WhatsApp queue that completed (created, and removed on
\* completion), and the jobs that failed for good
CompletedJobs ==
    {e \in waCreated : ~\E j \in waQueue : j.jid = e[1] /\ j.by = e[2]}
FailedJobs == {j \in waQueue : j.st = "failed"}

\* C21: when a worker finishes a job the outcome is recorded in the persisted
\* metrics of the campaign: once a job has completed the sent counter
\* (enviados) of its channel is at least 1, and once a job has failed for
\* good the failed counter (fallidos) is at least 1.
C21_OutcomeRecordedInMetrics ==
    /\ CompletedJobs # {} => campaign.metrics.whatsapp.enviados >= 1
    /\ FailedJobs # {} => campaign.metrics.whatsapp.fallidos >= 1

\* C22: with a configured rate rps >= 1, runFordCampaign sleeps
\* floor(1000 / rps) ms after every contact, also after one whose render or
\* enqueue failed: two consecutive enqueue submissions of one run are at
\* least floor(1000 / rps) ms apart.
C22_SubmissionsSpacedBySleep ==
    \A r \in RunIds :
        mailerRps >= 1 =>
            \A k \in 1..(Len(runs[r].emTimes) - 1) :
                runs[r].emTimes[k + 1] - runs[r].emTimes[k] >= 1000 \div mailerRps

\* a run submitted a second contact after the enqueue of the first one failed
C22_Witness ==
    \E r \in RunIds :
        /\ Len(runs[r].emTimes) >= 2
        /\ runs[r].emFailedAt = 1
        /\ runs[r].emRenderFailed = 0

\* C23: normalizePhone and normalizeWhatsAppPhone return either null or a
\* string of digits only (so without a leading '+'); every non-null result
\* of normalizeWhatsAppPhone satisfies isValidE164, and the recipient of
\* every WhatsApp job is a valid E.164 digit string.  It holds for the phone
\* texts read by the library model, and for every value pn.number may have
\* when the library holds a text valid.
C23_NormalisersReturnDigitsOrNull ==
    /\ utilCall.fn \in {"normalizePhone", "normalizeWhatsAppPhone"}
          => (utilCall.ret = <<>> \/ AllDigits(utilCall.ret))
    /\ utilCall.fn = "normalizeWhatsAppPhone"
          => (utilCall.ret = <<>> \/ E164_test(utilCall.ret))
    /\ utilCall.fn = "normalizeValidNumber"
          => /\ utilCall.normalized # <<>>
             /\ AllDigits(utilCall.normalized)
             /\ utilCall.ret = <<>> \/ (AllDigits(utilCall.ret) /\ E164_test(utilCall.ret))
    /\ \A j \in waQueue : E164_test(j.data.to)

\* a North American number written with separators was normalised for
\* WhatsApp to its digits, and the job of the contact with that phone is
\* addressed to them
C23_Witness ==
    /\ utilCall.fn = "normalizeWhatsAppPhone"
    /\ utilCall.raw = <<"+", "1", " ", "(", "4", "1", "5", ")", " ", "5", "5", "5", "-",
                        "2", "6", "7", "1">>
    /\ utilCall.ret = Tail(PhoneUS)
    /\ \E j \in waQueue : j.data.to = utilCall.ret

\* digits only, between 2 and 15 of them, the first one not zero
DigitsTwoToFifteen(s) ==
    /\ Len(s) \in 2..15
    /\ \A i \in 1..Len(s) : IsDigit(s[i])
    /\ s[1] # "0"

\* C24 as stated: isValidE164(candidate) is true exactly when the candidate
\* consists of digits only, has length between 2 and 15 and does not start
\* with zero; it is false for every other input, including a string with
\* any non-digit character.
C24_ValidExactlyDigitStrings ==
    utilCall.fn = "isValidE164" => (utilCall.ret <=> DigitsTwoToFifteen(utilCall.raw))

\* C24, amended: isValidE164(candidate) is true exactly when the candidate
\* with its surrounding whitespace removed consists of digits only, has
\* length between 2 and 15 and does not start with zero.
C24_ValidExactlyTrimmedDigitStrings ==
    utilCall.fn = "isValidE164" => (utilCall.ret <=> DigitsTwoToFifteen(Trim(utilCall.raw)))

\* a candidate of 15 digits between two spaces was accepted
C24_Witness ==
    /\ utilCall.fn = "isValidE164"
    /\ utilCall.raw = <<" ", "1">> \o Fives(14) \o <<" ">>
    /\ utilCall.ret = TRUE

\* C25 (removal of the embedded '15' by normalizeWhatsAppPhone): the branch
\* that removes it needs a canonical number of more than 13 digits, and no
\* result of normalizePhone is that long, so the removal never takes place.
C25_RemovalNeverReached ==
    utilCall.fn = "normalizePhone" => Len(utilCall.ret) <= 13

\* C26: for every non-empty media URL of the segment, parseable as a
\* Cloudinary URL or not, the promo list is built (the run is not aborted)
\* and the entry of the final promo list starts with 'https://'.
C26_PromoUrlIsHttps ==
    utilCall.fn \in {"promos", "sanitizedPromos"} => StartsWith(utilCall.ret, <<"https://">>)

\* a Cloudinary URL without protocol that does not parse (no version) went
\* through both passes
C26_Witness ==
    /\ utilCall.fn = "sanitizedPromos"
    /\ utilCall.raw = <<"res.cloudinary.com", "/", "demo", "/", "image", "/", "upload",
                        "/", "a.jpg">>
    /\ utilCall.ret = <<"https://">> \o utilCall.raw

\* C27: every contact loader (contactsFromArray, contactsFromXlsx) yields a
\* sequence in which no two contacts share the same email and every email
\* is well-formed, for any input rows.
C27_LoadersYieldDistinctValidEmails ==
    utilCall.fn \in {"contactsFromArray", "contactsFromXlsx"} =>
        /\ \A i, j \in 1..Len(utilCall.ret) : utilCall.ret[i] = utilCall.ret[j] => i = j
        /\ \A i \in 1..Len(utilCall.ret) : EMAIL_RE_test(utilCall.ret[i])

\* C28: for any sequence and interleaving of webhook deliveries carrying the
\* same message id, ensureUnique returns true for at most one of them within
\* the TTL of the key, so handleUserQuestion is invoked at most once per
\* message id (once more only after the key has expired).
C28_AtMostOnePerMessageId ==
    \A id \in MessageIds :
        /\ webhook.handled[id] <= 1 + webhook.expiries[id]
        /\ Cardinality({d \in 1..NumDeliveries :
                            webhook.reqs[d].id = id /\ webhook.reqs[d].isNew})
              <= 1 + webhook.expiries[id]

\* three deliveries of one message id have all been answered, the key never
\* expired, and handleUserQuestion ran once
C28_Witness ==
    /\ \A d \in 1..NumDeliveries :
          webhook.reqs[d].pc = "done" /\ webhook.reqs[d].id = "wamid.1"
    /\ webhook.expiries["wamid.1"] = 0
    /\ webhook.handled["wamid.1"] = 1
    /\ Cardinality({d \in 1..NumDeliveries : webhook.reqs[d].isNew}) = 1

\* C29: createCampaignFromRag validates the segment before creating
\* anything: when the lookup returns 404, fails or returns no data, no
\* Campaign record exists and no dispatch run was started; otherwise the
\* record is created as CREADA, and it is ENVIANDO (or later) by the time
\* the background dispatch run has started.
C29_ValidateCreateMarkDispatch ==
    /\ ~campaign.exists =>
          /\ crPc \in {"start", "done"}
          /\ \A r \in RunIds : runs[r].pc = "idle"
          /\ emailQueue = {} /\ waQueue = {}
    /\ crPc = "created" =>
          campaign.exists /\ campaign.estado = "CREADA" /\ runs[1].pc = "idle"
    /\ runs[1].pc # "idle" => campaign.exists /\ campaign.estado # "CREADA"

\* the request ended on a failed segment lookup: nothing was created
C29_Witness ==
    /\ crPc = "done"
    /\ ~campaign.exists
    /\ \A r \in RunIds : runs[r].pc = "idle"

\* C30: provided every external call returns or fails and the process does
\* not crash, a campaign that was set to ENVIANDO is eventually COMPLETADA
\* or FALLIDA: no campaign stays ENVIANDO forever.  Every step of a request
\* or of a run that waits for an external call is eventually taken (weak
\* fairness of SpecLive), and the executions in which an unhandled rejection
\* ends the process are outside the hypothesis.
C30_SendingLeadsToTerminal ==
    (campaign.exists /\ campaign.estado = "ENVIANDO")
        ~> (campaign.estado \in {"COMPLETADA", "FALLIDA"} \/ ~ProcessUp)

\* the update of the .then callback failed, the .catch callback of the same
\* chain stored FALLIDA with that error, and the process is running
C30_Witness ==
    /\ ProcessUp
    /\ \E r \in RunIds : /\ runs[r].pc = "done"
                          /\ runs[r].outcome = "resolved"
                          /\ runs[r].err = "findByIdAndUpdate"
    /\ campaign.estado = "FALLIDA"
    /\ campaign.lastError = "findByIdAndUpdate"

\* the promise of sendCampaignCore of run r is still pending
InProgress(r) == runs[r].pc \in {"load", "fetch", "email", "emailAdd", "emailSleep", "wa", "save"}

\* C31: whenever at least one dispatch run of the campaign is still in
\* progress, the stored state of the campaign is ENVIANDO, also when
\* sendCampaign was called again while an earlier run had not finished.
C31_SendingWhileAnyRunInProgress ==
    (\E r \in RunIds : InProgress(r)) => campaign.estado = "ENVIANDO"

\* C32: the amount a dispatch run adds to metrics.whatsapp.encolados (its
\* local counter encolados) equals the number of jobs that run created in the
\* WhatsApp queue: a submission whose job id is already in the queue creates
\* no job and is not counted.
C32_QueuedCountsCreatedJobs ==
    \A r \in RunIds :
        runs[r].n # 0 => runs[r].waEncolados = Cardinality(CreatedBy(runs[r].n))

(***************************************************************************)
(* The email worker's send path: sendReminder, sendEmail, the providers    *)
(* (mailer/index.js, mailer/providers/factory.js, mailer/mime.js)          *)
(***************************************************************************)
\* the header names runFordCampaign stores in every email job
CampaignHeaders == {"List-Unsubscribe", "List-Unsubscribe-Post", "X-Campaign", "X-Campaign-Id"}

\* the value runFordCampaign gives each header
HeaderValue(name) ==
    IF name = "List-Unsubscribe" THEN "<mailto:unsubscribe@inricompany.com?subject=UNSUBSCRIBE>"
    ELSE IF name = "List-Unsubscribe-Post" THEN "List-Unsubscribe=One-Click"
    ELSE IF name = "X-Campaign" THEN "ford-promos"
    ELSE campaignId

\* the value of an object property that is absent

\* obj[name] of JavaScript: undefined when the object has no such property
Prop(obj, name) == IF name \in DOMAIN obj THEN obj[name] ELSE Undefined

\* the entries of the header object obj[name]: none when the property is
\* absent (undefined), as for an object without entries
HeadersProp(obj, name) == IF name \in DOMAIN obj THEN obj[name] ELSE <<>>

\* config.from
configFrom == "ventas@ford"

\* from || config.from: an absent or empty sender is replaced by config.from
OrConfigFrom(from) == IF from \in {Undefined, ""} THEN configFrom ELSE from

\* a sender other than config.from
OtherFrom == "promos@ford"

\* the data of an email job: { to, subject, html, text, from, campaignId, headers }
MailJobData(to, from, names) ==
    [to |-> to, subject |-> "s", html |-> "h", text |-> "t", from |-> from,
     campaignId |-> campaignId, headers |-> [n \in names |-> HeaderValue(n)]]

\* the data of an email job enqueued without sender and without headers
\* ({ to, subject, html, text } of mailer/examples/enqueue-now.js)
MailJobBare(to) == [to |-> to, subject |-> "s", html |-> "h", text |-> "t"]

\* the jobs of the queue: those of runFordCampaign (config.from, the four
\* headers), jobs enqueued with some or none of the headers and with another
\* or an empty sender, and jobs without sender and headers
MailJobs ==
    {MailJobData(to, from, names) : to \in {EmailA, EmailB},
                                    from \in {configFrom, OtherFrom, ""},
                                    names \in SUBSET CampaignHeaders}
    \cup {[to |-> to, subject |-> "s", html |-> "h", text |-> "t", from |-> configFrom,
           campaignId |-> campaignId] : to \in {EmailA, EmailB}}
    \cup {MailJobBare(to) : to \in {EmailA, EmailB}}

\* process.env.EMAIL_PROVIDER || 'resend'
Providers == {"resend", "gmail", "smtp"}

\* the header lines of a MIME message, as <<name, value>> pairs
HeaderLines(headers, names) ==
    {<<n, headers[n]>> : n \in names}

\* the result of a send path that handed no message to a provider
NoMessage == [provider |-> "none", lines |-> {}]

\* the object sendWithResend hands to resend.emails.send: from: from ||
\* config.from, headers: headers || undefined
ResendMessage(args) ==
    [provider |-> "resend",
     lines |-> {<<"From", OrConfigFrom(Prop(args, "from"))>>, <<"To", Prop(args, "to")>>,
                <<"Subject", Prop(args, "subject")>>}
               \cup HeaderLines(HeadersProp(args, "headers"),
                                DOMAIN HeadersProp(args, "headers"))]

\* buildMultipart({ from, to, subject, html, text, extraHeaders }): the header
\* section of the MIME message that is encoded and handed to the Gmail API
buildMultipart(args) ==
    [provider |-> "gmail",
     lines |-> {<<"From", Prop(args, "from")>>, <<"To", Prop(args, "to")>>,
                <<"Subject", Prop(args, "subject")>>, <<"MIME-Version", "1.0">>,
                <<"Content-Type", "multipart/alternative">>}
               \cup HeaderLines(HeadersProp(args, "extraHeaders"),
                                DOMAIN HeadersProp(args, "extraHeaders"))]

\* sendWithResend({ to, subject, html, text, from, headers }): throws when
\* config.resend.apiKey is not set, else hands the message to
\* resend.emails.send; the message handed over, and the error thrown (NoError
\* when the provider's answer decides)
sendWithResend(args, hasCredentials) ==
    IF ~hasCredentials
    THEN [msg |-> NoMessage, err |-> "Falta RESEND_API_KEY en el entorno"]
    ELSE [msg |-> ResendMessage(args), err |-> NoError]

\* sendRawBase64Url({ raw }): ensureClient throws when an OAuth2 variable is
\* not set, else the raw message is handed to api.users.messages.send
sendRawBase64Url(raw, hasCredentials) ==
    IF ~hasCredentials
    THEN [msg |-> NoMessage, err |-> "Missing OAuth2 envs (CLIENT_ID/SECRET/REFRESH_TOKEN)"]
    ELSE [msg |-> raw, err |-> NoError]

\* buildMultipart({ from: from || config.from, to, subject, html, text, headers })
GmailArgs(args) ==
    [from |-> OrConfigFrom(Prop(args, "from")), to |-> Prop(args, "to"),
     subject |-> Prop(args, "subject"), html |-> Prop(args, "html"),
     text |-> Prop(args, "text"), headers |-> HeadersProp(args, "headers")]

\* sendEmail({ to, subject, html, text, from, headers }) up to the call of the
\* configured provider: the message handed over and the error thrown before
\* (an unknown provider, credentials that are not set)
sendEmail(args, provider, hasCredentials) ==
    IF provider = "resend" THEN sendWithResend(args, hasCredentials)
    ELSE IF provider = "gmail"
    THEN sendRawBase64Url(buildMultipart(GmailArgs(args)), hasCredentials)
    ELSE [msg |-> NoMessage, err |-> "EMAIL_PROVIDER no soportado"]

\* the email worker takes a job: sendReminder(job.data) returns at once in
\* dry-run mode and calls sendEmail otherwise
SendReminder ==
    /\ utilCall.fn = "pendingMail"
    /\ utilCall' = [utilCall EXCEPT !.fn = IF utilCall.dryRun THEN "dry_run" ELSE "sendEmail"]
    /\ UNCHANGED <<authLimit, webhook, mailerRps, now, emailWorker, retryCall, segment, expectedBodyParams,
                   campaign, crPc, runs, emailQueue, waQueue, waCreated, sends>>

\* the error a provider call rejects with
NetworkDown == "network down"

\* how sendEmail ends: it throws before the provider is called, or the
\* provider call resolves or rejects (answer) and sendEmail does the same
SendEmailEnds(call, handed, answer) ==
    IF handed.err # NoError
    THEN [call EXCEPT !.fn = "thrown", !.ret = handed.msg, !.err = handed.err]
    ELSE IF answer = "rejects"
    THEN [call EXCEPT !.fn = "thrown", !.ret = handed.msg, !.err = NetworkDown]
    ELSE [call EXCEPT !.fn = "sent", !.ret = handed.msg]

\* sendEmail hands the message to the provider, whose call resolves or
\* rejects, or throws before; a throw or a rejection fails the job
SendEmail ==
    /\ utilCall.fn = "sendEmail"
    /\ \E answer \in {"resolves", "rejects"} :
          utilCall' = SendEmailEnds(utilCall,
                                    sendEmail(utilCall.raw, utilCall.provider,
                                              utilCall.hasCredentials),
                                    answer)
    /\ UNCHANGED <<authLimit, webhook, mailerRps, now, emailWorker, retryCall, segment, expectedBodyParams,
                   campaign, crPc, runs, emailQueue, waQueue, waCreated, sends>>

\* One email job through the worker, for every provider, mode, job and
\* setting of the provider's credentials
InitMail ==
    /\ segment \in SmallSegments
    /\ expectedBodyParams = 2
    /\ campaign = NoCampaign
    /\ crPc = "start"
    /\ runs = [r \in RunIds |-> IdleRun]
    /\ emailQueue = {}
    /\ waQueue = {}
    /\ waCreated = {}
    /\ sends = 0
    /\ retryCall = IdleRetry
    /\ mailerRps = 5
    /\ now = 0
    /\ emailWorker = IdleWorker
    /\ webhook = NoWebhook
    /\ authLimit = NoAuthLimit
    /\ utilCall \in {[fn |-> "pendingMail", raw |-> job, provider |-> p, dryRun |-> d,
                      hasCredentials |-> k, ret |-> NoMessage, err |-> NoError] :
                        job \in MailJobs, p \in Providers, d \in BOOLEAN, k \in BOOLEAN}

NextMail ==
    \/ SendReminder
    \/ SendEmail

SpecMail == InitMail /\ [][NextMail]_vars

\* C33: for every email job processed with dry-run off, every header stored
\* in the job (List-Unsubscribe, List-Unsubscribe-Post, X-Campaign,
\* X-Campaign-Id) is present in the message handed to the provider, for
\* resend and for gmail alike.
C33_JobHeadersReachProvider ==
    (utilCall.fn = "sent" /\ "headers" \in DOMAIN utilCall.raw) =>
        \A n \in DOMAIN utilCall.raw.headers :
            <<n, utilCall.raw.headers[n]>> \in utilCall.ret.lines

(***************************************************************************)
(* One WhatsApp job through the worker and the retry loop of               *)
(* waSendTemplate (whatsapp/src/providers/whatsapp.js)                     *)
(***************************************************************************)
\* retry(() => doCall(), { retries: 3, ... }) of waSendTemplate
waRetries == 3

\* the errors axios.post throws in the runs of the send path
SendErrors == {Err(503, "", MsgBoom), Err(400, "", MsgBoom)}

\* the worker takes a waiting job and the processor calls waSendTemplate,
\* which validates and enters retry(doCall, { retries: 3 })
SendTake(j) ==
    /\ j \in waQueue
    /\ j.st = "waiting"
    /\ ActiveJobs = {}
    /\ retryCall.pc = "idle"
    /\ IF waSendTemplateRejects(j.data.bodyParams, WorkerExpectedBodyParams)
       THEN /\ waQueue' = (waQueue \ {j}) \cup {JobAfterFailure(j, "validation")}
            /\ UNCHANGED retryCall
       ELSE /\ waQueue' = (waQueue \ {j}) \cup
                    {[j EXCEPT !.st = "active", !.calledUnder = expectedBodyParams]}
            /\ retryCall' = [IdleRetry EXCEPT !.pc = "calling", !.retries = waRetries,
                                              !.delay = minDelay]
    /\ UNCHANGED <<authLimit, webhook, utilCall, mailerRps, now, emailWorker, segment,
                   expectedBodyParams, campaign, crPc, runs, emailQueue, waCreated, sends>>

\* retry returned the response: the processor returns and the job is
\* completed and removed (removeOnComplete: true)
SendReturn(j) ==
    /\ j \in waQueue
    /\ j.st = "active"
    /\ retryCall.pc = "returned"
    /\ waQueue' = waQueue \ {j}
    /\ retryCall' = IdleRetry
    /\ UNCHANGED <<authLimit, webhook, utilCall, mailerRps, now, emailWorker, segment,
                   expectedBodyParams, campaign, crPc, runs, emailQueue, waCreated, sends>>

\* retry rethrew: the processor rethrows and BullMQ counts the attempt.
\* httpCalls is history: the calls of the endpoint made for the job so far.
SendThrow(j) ==
    /\ j \in waQueue
    /\ j.st = "active"
    /\ retryCall.pc = "thrown"
    /\ waQueue' = (waQueue \ {j}) \cup
          {[JobAfterFailure(j, IF isRetryableError(retryCall.thrown)
                               THEN "transient" ELSE "permanent")
               EXCEPT !.httpCalls = @ + retryCall.calls]}
    /\ retryCall' = IdleRetry
    /\ UNCHANGED <<authLimit, webhook, utilCall, mailerRps, now, emailWorker, segment,
                   expectedBodyParams, campaign, crPc, runs, emailQueue, waCreated, sends>>

\* The WhatsApp channel with the retry loop of the provider call: the run of
\* a campaign, a re-send once that run has ended, and one worker
NextSend ==
    \/ CreateValidate({"whatsapp"})
    \/ CreateMarkSending
    \/ (runs[1].pc = "done" /\ \E r \in RunIds : SendCampaignFind(r))
    \/ \E r \in RunIds : SendCampaignSave(r)
    \/ \E r \in RunIds : Load(r)
    \/ \E r \in RunIds : Fetch(r)
    \/ \E r \in RunIds : WhatsAppContact(r)
    \/ \E r \in RunIds : SaveCounters(r)
    \/ \E r \in RunIds : OnResolved(r)
    \/ \E r \in RunIds : OnRejected(r)
    \/ \E j \in waQueue : SendTake(j)
    \/ \E j \in waQueue : SendReturn(j)
    \/ \E j \in waQueue : SendThrow(j)
    \/ FnResolves
    \/ \E err \in SendErrors : FnThrows(err)
    \/ SleepEnds

SpecSend == Init /\ [][NextSend]_vars

\* the calls of the provider endpoint made for job j so far
HttpCalls(j) == j.httpCalls + (IF j.st = "active" THEN retryCall.calls ELSE 0)

CallsBounded == \A j \in waQueue : HttpCalls(j) <= attempts * (waRetries + 1)

\* C34: for one WhatsApp job the provider endpoint is called at most
\* attempts x (retries + 1) = 3 x 4 = 12 times; after that the job is failed
\* and the endpoint is never called for it again (a failed job stays in the
\* queue as it is, with the calls it had).
C34_AtMostTwelveCallsPerJob ==
    [][/\ CallsBounded
       /\ CallsBounded'
       /\ \A j \in waQueue : j.st = "failed" => j \in waQueue']_vars

\* a job failed after its twelfth call of the endpoint
C34_Witness ==
    \E j \in waQueue : j.st = "failed" /\ j.httpCalls = attempts * (waRetries + 1)

\* Requests of sendCampaign by every user, over the runs of a campaign
NextTenant ==
    \/ \E canales \in ChannelChoices : CreateValidate(canales)
    \/ CreateMarkSending
    \/ \E r \in RunIds, user \in Users : SendCampaignRequest(r, user)
    \/ \E r \in RunIds : SendCampaignSave(r)
    \/ \E r \in RunIds : Load(r)
    \/ \E r \in RunIds : Fetch(r)
    \/ \E r \in RunIds : EmailContact(r)
    \/ \E r \in RunIds : EnqueueEmailSettles(r)
    \/ \E r \in RunIds : EmailSleepEnds(r)
    \/ \E r \in RunIds : WhatsAppContact(r)
    \/ \E r \in RunIds : SaveCounters(r)
    \/ \E r \in RunIds : OnResolved(r)
    \/ \E r \in RunIds : OnRejected(r)

SpecTenant == Init /\ [][NextTenant]_vars

\* run r holds a request of sendCampaign made for a campaign of another tenant
ForeignRequest(r) ==
    /\ runs[r].n > 1
    /\ runs[r].reqTenant # NoId
    /\ campaign.exists
    /\ runs[r].reqTenant # campaign.tenantId

\* C35 as stated: sendCampaign by a user of tenant A for a campaign of tenant
\* B answers 404 and changes nothing: the state and lastError of the campaign
\* are unchanged, no dispatch run is started and no job is enqueued.
C35_ForeignTenantGets404 ==
    [][\A r \in RunIds :
          (sends' = sends + 1 /\ runs'[r].n = sends + 2 /\ ForeignRequest(r)') =>
              /\ runs'[r].status = 404
              /\ runs'[r].pc = "done"
              /\ campaign' = campaign
              /\ emailQueue' = emailQueue
              /\ waQueue' = waQueue]_vars

\* C35: sendCampaign by a user of tenant A for a campaign of tenant B answers
\* 404, or 500 when the lookup of the campaign itself fails, and in both
\* cases changes nothing: the state and lastError of the campaign are
\* unchanged, no dispatch run is started and no job is enqueued.
C35_ForeignTenantChangesNothing ==
    [][\A r \in RunIds :
          (sends' = sends + 1 /\ runs'[r].n = sends + 2 /\ ForeignRequest(r)') =>
              /\ runs'[r].status = IF runs'[r].lookup = "rejects" THEN 500 ELSE 404
              /\ runs'[r].pc = "done"
              /\ campaign' = campaign
              /\ emailQueue' = emailQueue
              /\ waQueue' = waQueue]_vars

\* a request for a campaign of another tenant was answered 404 while the
\* campaign was being sent
C35_Witness ==
    \E r \in RunIds :
        ForeignRequest(r) /\ runs[r].status = 404 /\ campaign.estado = "ENVIANDO"

(***************************************************************************)
(* rateLimitByEmail and resetRateLimitOnSuccess                            *)
(* (src/middleware/rateLimit.middleware.js)                                *)
(***************************************************************************)
\* if (currentAttempts === 0) redis.setex(key, 900, '1') else redis.incr(key):
\* SETEX writes '1' with a TTL whatever the key holds; INCR adds one and keeps
\* the TTL of the key, and on an absent key creates it as 1 without a TTL
Increment(key, currentAttempts) ==
    IF currentAttempts = 0 THEN [exists |-> TRUE, value |-> 1, ttl |-> TRUE]
    ELSE IF key.exists THEN [key EXCEPT !.value = @ + 1]
    ELSE [exists |-> TRUE, value |-> 1, ttl |-> FALSE]

\* const attempts = await redis.get(key); currentAttempts = attempts ? parseInt(attempts) : 0
\* then 429 when currentAttempts >= maxAttempts; a Redis error goes to the
\* catch, which calls next()
RateLimitGet(q) ==
    LET read == IF authLimit.key.exists THEN authLimit.key.value ELSE 0 IN
    /\ authLimit.reqs[q].pc = "idle"
    /\ \/ authLimit' = [authLimit EXCEPT
                            !.reqs[q] = [pc |-> IF read >= maxAttempts THEN "429" ELSE "write",
                                         currentAttempts |-> read]]
       \/ authLimit' = [authLimit EXCEPT !.reqs[q].pc = "error"]
    /\ UNCHANGED <<webhook, utilCall, mailerRps, now, emailWorker, retryCall, segment,
                   expectedBodyParams, campaign, crPc, runs, emailQueue, waQueue,
                   waCreated, sends>>

\* the counter is written, req.rateLimitKey is set and next() is called
RateLimitWrite(q) ==
    /\ authLimit.reqs[q].pc = "write"
    /\ \/ authLimit' = [authLimit EXCEPT
                            !.key = Increment(@, authLimit.reqs[q].currentAttempts),
                            !.reqs[q].pc = "next",
                            !.passed = @ + 1]
       \/ authLimit' = [authLimit EXCEPT !.reqs[q].pc = "error"]
    /\ UNCHANGED <<webhook, utilCall, mailerRps, now, emailWorker, retryCall, segment,
                   expectedBodyParams, campaign, crPc, runs, emailQueue, waQueue,
                   waCreated, sends>>

\* redis.del(key) of resetEmailRateLimit
Del(key) == [exists |-> FALSE, value |-> 0, ttl |-> FALSE]

\* the controller answers with res.json: with 200 or 201 the overrides of
\* res.json and of res.send each call resetEmailRateLimit (two redis.del in a
\* row) and the 'finish' handler is still to run; with any other status the
\* key is left
ControllerAnswers(q) ==
    /\ authLimit.reqs[q].pc = "next"
    /\ \/ authLimit' = [authLimit EXCEPT
                            !.key = Del(Del(@)),
                            !.reqs[q].pc = "finish",
                            !.resets = @ + 1]
       \/ authLimit' = [authLimit EXCEPT !.reqs[q].pc = "done"]
    /\ UNCHANGED <<webhook, utilCall, mailerRps, now, emailWorker, retryCall, segment,
                   expectedBodyParams, campaign, crPc, runs, emailQueue, waQueue,
                   waCreated, sends>>

\* res.on('finish') of a 200 or 201 answer, once the response is written:
\* resetEmailRateLimit deletes the key a third time, whatever other requests
\* wrote to it since the answer
ResponseFinish(q) ==
    /\ authLimit.reqs[q].pc = "finish"
    /\ authLimit' = [authLimit EXCEPT !.key = Del(@), !.reqs[q].pc = "done"]
    /\ UNCHANGED <<webhook, utilCall, mailerRps, now, emailWorker, retryCall, segment,
                   expectedBodyParams, campaign, crPc, runs, emailQueue, waQueue,
                   waCreated, sends>>

\* the TTL of the counter key runs out: Redis drops the key
CounterExpires ==
    /\ authLimit.key.exists
    /\ authLimit.key.ttl
    /\ authLimit.expiries < MaxKeyExpiries
    /\ authLimit' = [authLimit EXCEPT
                        !.key = [exists |-> FALSE, value |-> 0, ttl |-> FALSE],
                        !.expiries = @ + 1]
    /\ UNCHANGED <<webhook, utilCall, mailerRps, now, emailWorker, retryCall, segment,
                   expectedBodyParams, campaign, crPc, runs, emailQueue, waQueue,
                   waCreated, sends>>

\* Concurrent login requests for one email
NextAuth ==
    \/ \E q \in 1..NumRequests : RateLimitGet(q)
    \/ \E q \in 1..NumRequests : RateLimitWrite(q)
    \/ \E q \in 1..NumRequests : ControllerAnswers(q)
    \/ \E q \in 1..NumRequests : ResponseFinish(q)
    \/ CounterExpires

SpecAuth == Init /\ [][NextAuth]_vars

\* C36: rateLimitByEmail lets at most 3 requests for one email pass within
\* one window when no successful response reset the counter, for any
\* interleaving of concurrent requests (passes through the catch of a Redis
\* error are not counted).
C36_AtMostThreePassPerWindow ==
    (authLimit.expiries = 0 /\ authLimit.resets = 0) => authLimit.passed <= maxAttempts

\* C37: whenever the counter key of an email exists in Redis it carries an
\* expiry, for any interleaving of rateLimitByEmail calls, resets and key
\* expiration.
C37_CounterKeyHasExpiry ==
    authLimit.key.exists => authLimit.key.ttl

\* a call of handleUserQuestion for message id is still running
Handling(id) ==
    \E d \in 1..NumDeliveries : webhook.reqs[d].pc = "handle" /\ webhook.reqs[d].id = id

\* C38: an inbound text message is treated as already processed only if its
\* handling completed: a delivery is answered as a duplicate only when a call
\* of handleUserQuestion for its message id returned (or is still running);
\* after a failed handling a redelivery is handled again.
C38_DuplicateOnlyAfterCompletedHandling ==
    [][\A id \in MessageIds :
          webhook'.dropped[id] > webhook.dropped[id] =>
              (webhook.completed[id] > 0 \/ Handling(id))]_vars

=============================================================================
